---- MODULE Spec2Model ----
(***************************************************************************)
(* Best-of-N image generation with evaluation and selection, the video     *)
(* operation monitor and the audio retry loop, as implemented by           *)
(* content_gen_agent (product-catalog-ad-generation), and the runner of    *)
(* machine-learning-engineering/testing/scripts/execute_runs.py.           *)
(*                                                                         *)
(*   Spec          one call of generate_one_image: the fan-out of          *)
(*                 MAX_RETRIES call_gemini_image_api tasks under           *)
(*                 asyncio.gather, each followed by evaluate_media, and    *)
(*                 the max-selection over the successful attempts.         *)
(*   SpecEval      one call of evaluate_media, followed by                 *)
(*                 calculate_evaluation_score of what it returned.         *)
(*   SpecStory     one call of generate_images_from_storyline: the load of *)
(*                 the logo and the asset sheet, one generate_one_image    *)
(*                 task per scene under asyncio.gather, the sort and the   *)
(*                 save of the selected images.                            *)
(*   SpecSelect    the max-selection of generate_one_image on a list of    *)
(*                 successful attempts and on the same attempts in another *)
(*                 order.                                                  *)
(*   SpecVideo     one call of _generate_single_video: the submission, the *)
(*                 polling loop of _monitor_video_operation and the save   *)
(*                 of the video.  SpecVideoLive adds weak fairness.        *)
(*   SpecAudio     one call of generate_audio: its retry loop around the   *)
(*                 request to the audio service.  SpecAudioLive adds weak  *)
(*                 fairness.                                               *)
(*   SpecDuration  one call of _round_to_nearest_veo_duration.             *)
(*   SpecGenerateVideo                                                     *)
(*                 one call of generate_video: the image sources, their    *)
(*                 load, one _generate_single_video task per source under  *)
(*                 asyncio.gather and the report of the results.           *)
(*   SpecRuns      one run of execute_runs.py: the pool of N workers, one  *)
(*                 run per competition, and the write of the submissions   *)
(*                 file.  SpecRunsLive adds weak fairness.                 *)
(*   SpecAudioAndVoiceover                                                 *)
(*                 one call of generate_audio_and_voiceover: the audio and *)
(*                 the voiceover task under asyncio.gather and the         *)
(*                 response built from their results.                      *)
(*   SpecSheet     one call of generate_storyline past the storyline text: *)
(*                 the attempts at the asset sheet, the selection of the   *)
(*                 best and the save of the artifacts.                     *)
(*   SpecNames     the name of one scene's artifact through the image, the *)
(*                 video and the combine stage.                            *)
(*                                                                         *)
(* Python values are modelled as follows.  None is the record None.  A     *)
(* str is a sequence of pieces of text (single characters where the code   *)
(* looks at characters), and an Optional[str] that is only tested for      *)
(* truth has <<>> for both None and "".  An EvalResult is a record of its  *)
(* seven Literal["Pass","Fail"] fields (its free-text reason is read by no *)
(* branch and is left out).  A raised exception is the name of its class.  *)
(***************************************************************************)
EXTENDS Integers, Sequences, FiniteSets, TLC

VARIABLES
    pc,              \* generate_one_image: "idle", "gather", "returned", "raised"
    prompt,          \* arguments of the call
    input_images,    \* len(input_images)
    filename_prefix,
    tasks,           \* the MAX_RETRIES call_gemini_image_api tasks
    gather_exc,      \* the exception asyncio.gather propagates, or None
    selector_arg,    \* whether max() was called, and on which list
    outcome,         \* Return(record) or Raise(class) of the call, or None
    gen_requests,    \* generate_content calls issued to the image model
    eval_calls,      \* evaluate_media calls made
    em_pc,           \* evaluate_media: "idle", "returned", "raised", "scored"
    em_out,          \* Return(value) or Raise(class) of evaluate_media
    score,           \* calculate_evaluation_score of the returned value
    gs_pc,           \* generate_images_from_storyline: as pc
    gs_args,         \* arguments of the call
    gs_tasks,        \* the generate_one_image tasks, in creation order
    gs_gather_exc,   \* the exception its asyncio.gather propagates, or None
    gs_out,          \* Return(list) or Raise(class) of the call, or None
    gs_requests,     \* generate_content calls issued by its tasks
    loaded,          \* the artifacts it loaded with tool_context.load_artifact
    artifacts,       \* the save_artifact calls made, in order
    sel_pc,          \* the selector on two orders: "idle", "chosen", "selected"
    sel_results,     \* a list of successful attempts
    sel_order,       \* a permutation of its positions
    sel_best,        \* the attempt max() selects in either order
    vid_pc,          \* _generate_single_video: "idle", "sleeping", "done",
                     \* "returned", "raised"
    vid_input,       \* its video_input
    operation,       \* the operation as _monitor_video_operation holds it
    polls,           \* vertex_client.operations.get calls made
    sleeps,          \* the asyncio.sleep calls made, in order
    mon_out,         \* Return(tuple) or Raise(class) of the monitor, or None
    vid_out,         \* Return(tuple) or Raise(class) of the call, or None
    vid_artifacts,   \* the save_artifact calls of the call
    au_pc,           \* generate_audio: "idle", "posted", "returned"
    au_attempt,      \* the loop variable attempt
    au_requests,     \* the session.post requests made, in order
    au_sleeps,       \* the asyncio.sleep calls made: attempt and 2**attempt
    au_log,          \* what ended each attempt, as the code logs it
    au_out,          \* Return(dict) of the call, or None
    au_artifacts,    \* the save_artifact calls of the call
    dur_pc,          \* _round_to_nearest_veo_duration: "idle", "returned"
    dur_in,          \* its argument duration
    dur_out,         \* the value it returned
    gv_pc,           \* generate_video: "idle", "gather", "returned", "raised"
    gv_args,         \* arguments of the call
    gv_sources,      \* image_sources
    gv_client,       \* whether _initialize_vertex_client returned a client
    gv_loads,        \* what load_image_resource did for each processed source
    gv_tasks,        \* the _generate_single_video tasks, with task_sources
    gv_failed,       \* failed_videos as _create_video_tasks returned it
    gv_gather_exc,   \* the exception its asyncio.gather propagates, or None
    gv_out,          \* Return(dict) or Raise(class) of the call, or None
    er_pc,           \* main of execute_runs: "idle", "pool", "written"
    er_jobs,         \* args.jobs
    er_runs,         \* the run_competition call of each competition
    running,         \* the set running
    er_tmp,          \* the temporary input files that exist
    er_submissions,  \* the list submissions
    er_file,         \* the lines of submissions.jsonl, or None
    av_pc,           \* generate_audio_and_voiceover: "idle", "gather",
                     \* "returned"
    av_mode,         \* generation_mode
    av_vo,           \* the generate_voiceover task
    av_out,          \* Return(dict) of the call, or None
    sh_pc,           \* generate_storyline: "idle", "gather", "returned",
                     \* "raised"
    sh_tasks,        \* the call_gemini_image_api tasks of the asset sheet
    sh_out,          \* Return(dict) or Raise(class) of the call, or None
    sh_artifacts,    \* the save_artifact calls made, in order
    nm_pc,           \* a scene in the pipeline: "idle", "image", "video",
                     \* "clip"
    nm_scene,        \* its scene number
    nm_image,        \* the name the image stage saved its image under
    nm_source,       \* the name the video stage loads for it
    nm_video,        \* the name the video stage saved its video under
    nm_clip          \* what the combine stage parsed from that name

imgVars == <<pc, prompt, input_images, filename_prefix, tasks, gather_exc,
             selector_arg, outcome, gen_requests, eval_calls>>
evalVars == <<em_pc, em_out, score>>
storyVars == <<gs_pc, gs_args, gs_tasks, gs_gather_exc, gs_out, gs_requests,
               loaded, artifacts>>
selVars == <<sel_pc, sel_results, sel_order, sel_best>>
videoVars == <<vid_pc, vid_input, operation, polls, sleeps, mon_out, vid_out,
               vid_artifacts>>
audioVars == <<au_pc, au_attempt, au_requests, au_sleeps, au_log, au_out,
               au_artifacts>>
durVars == <<dur_pc, dur_in, dur_out>>
gvVars == <<gv_pc, gv_args, gv_sources, gv_client, gv_loads, gv_tasks,
            gv_failed, gv_gather_exc, gv_out>>
runVars == <<er_pc, er_jobs, er_runs, running, er_tmp, er_submissions,
             er_file>>
avVars == <<av_pc, av_mode, av_vo, av_out>>
sheetVars == <<sh_pc, sh_tasks, sh_out, sh_artifacts>>
nameVars == <<nm_pc, nm_scene, nm_image, nm_source, nm_video, nm_clip>>
lateVars == <<durVars, gvVars, runVars, avVars, sheetVars, nameVars>>
\* the variables of lateVars but those of one of the tuples
lateButDur == <<gvVars, runVars, avVars, sheetVars, nameVars>>
lateButGv == <<durVars, runVars, avVars, sheetVars, nameVars>>
lateButRun == <<durVars, gvVars, avVars, sheetVars, nameVars>>
lateButAv == <<durVars, gvVars, runVars, sheetVars, nameVars>>
lateButSheet == <<durVars, gvVars, runVars, avVars, nameVars>>
lateButName == <<durVars, gvVars, runVars, avVars, sheetVars>>
baseVars == <<imgVars, evalVars, storyVars, selVars, videoVars, audioVars>>
restVars == <<selVars, videoVars, audioVars, lateVars>>
vars == <<imgVars, evalVars, storyVars, restVars>>

-----------------------------------------------------------------------------
(* Bounds of the explored inputs.                                          *)

\* the sub-judgments of an explored EvalResult all agree, except for at most
\* this many of them
MaxSubDiffer == 0
\* generate_one_image is called with 0..MaxImages input images
MaxImages == 1
\* generate_images_from_storyline is called with 0..MaxPrompts prompts
MaxPrompts == 2
\* and with scene_numbers of at most MaxScenes entries
MaxScenes == 2
\* _round_to_nearest_veo_duration is called with -MaxDuration..MaxDuration
MaxDuration == 60
\* generate_video is called with at most MaxSources video queries, images
\* and scene numbers
MaxSources == 2
\* execute_runs is started with --jobs 1..MaxJobs
MaxJobs == 2
\* and with a list of at most MaxCompetitions competitions
MaxCompetitions == 3
\* the scenes of the pipeline are numbered 0..MaxSceneNumber
MaxSceneNumber == 40

-----------------------------------------------------------------------------
(* Python values.                                                          *)

None == [none |-> TRUE]

\* how a call ends
Return(v) == [kind |-> "return", value |-> v]
Raise(e) == [kind |-> "raise", exc |-> e]

Digits == <<"0", "1", "2", "3", "4", "5", "6", "7", "8", "9">>

RECURSIVE IntToStr(_)
\* str(n) of an int n >= 0, as used by the f-strings
IntToStr(n) ==
    IF n < 10 THEN <<Digits[n + 1]>>
    ELSE IntToStr(n \div 10) \o <<Digits[(n % 10) + 1]>>

Literal == {"Pass", "Fail"}

\* the six sub-judgment fields of EvalResult, in declaration order
SubFields == <<"subject_adherence", "attribute_matching", "spatial_accuracy",
               "style_fidelity", "quality_and_coherence", "no_storyboard">>

EvalResult == [decision : Literal, subject_adherence : Literal,
               attribute_matching : Literal, spatial_accuracy : Literal,
               style_fidelity : Literal, quality_and_coherence : Literal,
               no_storyboard : Literal]

SubWith(e, v) == {i \in 1..Len(SubFields) : e[SubFields[i]] = v}

\* the EvalResults the fan-out model draws the judge's answers from
EvalPool == {e \in EvalResult : \E v \in Literal :
                                  Cardinality(SubWith(e, v)) <= MaxSubDiffer}

\* items() of score_mapping, in insertion order
score_mapping == <<
    <<"decision", 10>>,
    <<"subject_adherence", 2>>,
    <<"attribute_matching", 2>>,
    <<"spatial_accuracy", 2>>,
    <<"style_fidelity", 2>>,
    <<"quality_and_coherence", 2>>,
    <<"no_storyboard", 2>> >>

RECURSIVE ScoreLoop(_, _, _)
\* the for loop of calculate_evaluation_score from item i on, score so far s
ScoreLoop(e, i, s) ==
    IF i > Len(score_mapping) THEN s
    ELSE ScoreLoop(e, i + 1,
                   IF e[score_mapping[i][1]] = "Pass"
                     THEN s + score_mapping[i][2] ELSE s)

\* a loop that skips the first item of score_mapping
calculate_evaluation_score_skipsFirst(e) ==
    IF e = None THEN 0 ELSE ScoreLoop(e, 2, 0)

calculate_evaluation_score(e) ==
    IF e = None THEN 0 ELSE ScoreLoop(e, 1, 0)

-----------------------------------------------------------------------------
(* Exceptions.  The external calls raise classes of google.api_core and    *)
(* google.genai; ClientError stands for every class that is listed in      *)
(* neither except clause (genai.errors.ClientError, a connection error,    *)
(* a timeout).                                                             *)

ApiErrors == {"GoogleAPICallError", "ResourceExhausted", "ValueError",
              "ServerError", "ClientError"}

\* the classes e is an instance of
Bases(e) == IF e = "ResourceExhausted"
              THEN {"ResourceExhausted", "GoogleAPICallError"} ELSE {e}

\* except (api_exceptions.GoogleAPICallError, ValueError) of evaluate_media
EvaluateMediaCatches == {"GoogleAPICallError", "ValueError"}

\* the except clause of call_gemini_image_api
CallGeminiCatches == {"GoogleAPICallError", "ValueError", "ResourceExhausted",
                      "ServerError"}

Caught(e, classes) == Bases(e) \cap classes # {}

-----------------------------------------------------------------------------
(* evaluate_media.  ext is what the judge call does: it raises, or it      *)
(* answers with response.parsed being an EvalResult or None.               *)

JudgeRaises == {[kind |-> "raise", exc |-> e] : e \in ApiErrors}
JudgeAnswers(pool) == {[kind |-> "response", parsed |-> p] :
                          p \in pool \cup {None}}

\* the try body: result.decision is read before result is returned
evaluate_media_body(ext) ==
    IF ext.kind = "raise" THEN Raise(ext.exc)
    ELSE IF ext.parsed = None THEN Raise("AttributeError")
    ELSE Return(ext.parsed)

evaluate_media(ext) ==
    LET r == evaluate_media_body(ext) IN
    IF r.kind = "raise" /\ Caught(r.exc, EvaluateMediaCatches)
      THEN Return(None)
      ELSE r

-----------------------------------------------------------------------------
(* call_gemini_image_api.  Attempt i is suspended twice: at the            *)
(* generate_content request and at evaluate_media.                         *)

MAX_RETRIES == 3
IMAGE_MIME_TYPE == "image/png"

Attempts == 1..MAX_RETRIES

\* What the image model does for attempt i: it raises, or it answers with
\* the parts of its first candidate.  A part is its inline data, 0 for a
\* part without inline data; no candidate, content or parts is <<>>.  The
\* bytes generated for attempt i are i (and i + MAX_RETRIES for a second
\* image of the same answer).
ImageModelRaises == {[kind |-> "raise", exc |-> e] : e \in ApiErrors}
ImageModelAnswers(i) ==
    {[kind |-> "response", parts |-> ps] :
        ps \in {<<>>, <<0>>, <<i>>, <<0, i>>, <<i, i + MAX_RETRIES>>}}

RECURSIVE FirstInlineData(_, _)
\* the for loop over parts: the data of the first part that has some, or 0
FirstInlineData(parts, k) ==
    IF k > Len(parts) THEN 0
    ELSE IF parts[k] # 0 THEN parts[k]
    ELSE FirstInlineData(parts, k + 1)

\* the except clause of call_gemini_image_api, then the final return None
call_gemini_except(r) ==
    IF r.kind = "raise" /\ Caught(r.exc, CallGeminiCatches)
      THEN Return(None)
      ELSE r

\* up to the await of evaluate_media: Await(image_bytes) when an image came
call_gemini_request(ext) ==
    IF ext.kind = "raise" THEN call_gemini_except(Raise(ext.exc))
    ELSE IF FirstInlineData(ext.parts, 1) = 0 THEN Return(None)
    ELSE [kind |-> "await", image_bytes |-> FirstInlineData(ext.parts, 1)]

\* from the return of evaluate_media on; ev is how evaluate_media ended
call_gemini_evaluated(image_bytes, ev) ==
    IF ev.kind = "raise" THEN call_gemini_except(ev)
    ELSE Return([image_bytes |-> image_bytes,
                 evaluation |-> ev.value,
                 mime_type |-> IMAGE_MIME_TYPE])

-----------------------------------------------------------------------------
(* generate_one_image.                                                     *)

NoInputDetail == <<"Input image(s) are required for image generation.">>
AllFailedDetail(p) ==
    <<"All image generation attempts failed for prompt: '">> \o p \o <<"'.">>
SuccessDetail(filename) ==
    <<"Image generated successfully for ">> \o filename \o <<".">>

\* [res for res in results if res]
successful_attempts(results) == SelectSeq(results, LAMBDA res : res # None)

\* a key that reads the decision only
attempt_key_decisionOnly(x) ==
    IF x.evaluation = None THEN 0
    ELSE IF x.evaluation.decision = "Pass" THEN 10 ELSE 0

attempt_key(x) == calculate_evaluation_score(x.evaluation)

RECURSIVE MaxLoop(_, _, _)
\* Python's max(seq, key=...): the first item whose key is the greatest
MaxLoop(seq, k, best) ==
    IF k > Len(seq) THEN best
    ELSE MaxLoop(seq, k + 1,
                 IF attempt_key(seq[k]) > attempt_key(best)
                   THEN seq[k] ELSE best)

\* a selection that takes the first successful attempt, whatever its score
PyMax_first(seq) == seq[1]

RECURSIVE MaxLoop_last(_, _, _)
\* a max that keeps the last of the items whose key is the greatest
MaxLoop_last(seq, k, best) ==
    IF k > Len(seq) THEN best
    ELSE MaxLoop_last(seq, k + 1,
                      IF attempt_key(seq[k]) >= attempt_key(best)
                        THEN seq[k] ELSE best)

PyMax_last(seq) == MaxLoop_last(seq, 2, seq[1])

PyMax(seq) == MaxLoop(seq, 2, seq[1])

SuccessRecord(best_attempt, prefix) ==
    LET filename == prefix \o <<".", "p", "n", "g">> IN
    Return([status |-> "success",
            detail |-> SuccessDetail(filename),
            filename |-> filename,
            image_bytes |-> best_attempt.image_bytes])

\* generate_one_image from the return of asyncio.gather on
generate_one_image_select(results, p, prefix) ==
    LET sa == successful_attempts(results) IN
    IF sa = <<>>
      THEN [out |-> Return([status |-> "failed",
                            detail |-> AllFailedDetail(p)]),
            selector |-> [called |-> FALSE]]
      ELSE LET best_attempt == PyMax(sa) IN
           \* best_attempt.get("evaluation").decision is read first
           [out |-> IF best_attempt.evaluation = None
                      THEN Raise("AttributeError")
                      ELSE SuccessRecord(best_attempt, prefix),
            selector |-> [called |-> TRUE, arg |-> sa]]

NoTask == [at |-> "none", image_bytes |-> 0, out |-> None]

PromptInputs == {<<"red shoe on white background">>}
PrefixInputs == {IntToStr(n) \o <<"_">> : n \in {0, 12}}

Init ==
    /\ pc = "idle"
    /\ prompt = <<>>
    /\ input_images = 0
    /\ filename_prefix = <<>>
    /\ tasks = [i \in Attempts |-> NoTask]
    /\ gather_exc = None
    /\ selector_arg = [called |-> FALSE]
    /\ outcome = None
    /\ gen_requests = 0
    /\ eval_calls = 0
    /\ em_pc = "idle"
    /\ em_out = None
    /\ score = 0
    /\ gs_pc = "idle"
    /\ gs_args = None
    /\ gs_tasks = <<>>
    /\ gs_gather_exc = None
    /\ gs_out = None
    /\ gs_requests = 0
    /\ loaded = <<>>
    /\ artifacts = <<>>
    /\ sel_pc = "idle"
    /\ sel_results = <<>>
    /\ sel_order = <<>>
    /\ sel_best = None
    /\ vid_pc = "idle"
    /\ vid_input = None
    /\ operation = None
    /\ polls = 0
    /\ sleeps = <<>>
    /\ mon_out = None
    /\ vid_out = None
    /\ vid_artifacts = <<>>
    /\ au_pc = "idle"
    /\ au_attempt = 0
    /\ au_requests = <<>>
    /\ au_sleeps = <<>>
    /\ au_log = <<>>
    /\ au_out = None
    /\ au_artifacts = <<>>
    /\ dur_pc = "idle"
    /\ dur_in = 0
    /\ dur_out = 0
    /\ gv_pc = "idle"
    /\ gv_args = None
    /\ gv_sources = <<>>
    /\ gv_client = FALSE
    /\ gv_loads = <<>>
    /\ gv_tasks = <<>>
    /\ gv_failed = <<>>
    /\ gv_gather_exc = None
    /\ gv_out = None
    /\ er_pc = "idle"
    /\ er_jobs = 0
    /\ er_runs = <<>>
    /\ running = {}
    /\ er_tmp = {}
    /\ er_submissions = <<>>
    /\ er_file = None
    /\ av_pc = "idle"
    /\ av_mode = ""
    /\ av_vo = [at |-> "none", out |-> None]
    /\ av_out = None
    /\ sh_pc = "idle"
    /\ sh_tasks = <<>>
    /\ sh_out = None
    /\ sh_artifacts = <<>>
    /\ nm_pc = "idle"
    /\ nm_scene = 0
    /\ nm_image = <<>>
    /\ nm_source = <<>>
    /\ nm_video = <<>>
    /\ nm_clip = [isdigit |-> FALSE]

\* the call without its input_images guard
GenerateOneImage_noGuard(p, n, prefix) ==
    /\ pc = "idle"
    /\ prompt' = p
    /\ input_images' = n
    /\ filename_prefix' = prefix
    /\ tasks' = [i \in Attempts |-> [NoTask EXCEPT !.at = "request"]]
    /\ gen_requests' = gen_requests + MAX_RETRIES
    /\ pc' = "gather"
    /\ UNCHANGED <<outcome, gather_exc, selector_arg, eval_calls, evalVars, storyVars,
                   restVars>>

\* generate_one_image is called and runs up to await asyncio.gather(*tasks);
\* the tasks gather schedules each run up to their generate_content request
GenerateOneImage(p, n, prefix) ==
    /\ pc = "idle"
    /\ prompt' = p
    /\ input_images' = n
    /\ filename_prefix' = prefix
    /\ IF n = 0
         THEN /\ outcome' = Return([status |-> "failed",
                                     detail |-> NoInputDetail])
              /\ pc' = "returned"
              /\ UNCHANGED <<tasks, gen_requests>>
         ELSE /\ tasks' = [i \in Attempts |-> [NoTask EXCEPT !.at = "request"]]
              /\ gen_requests' = gen_requests + MAX_RETRIES
              /\ pc' = "gather"
              /\ UNCHANGED outcome
    /\ UNCHANGED <<gather_exc, selector_arg, eval_calls, evalVars, storyVars,
                   restVars>>

\* a task that ends: its result or exception is set; the first exception of
\* a task is the one gather (return_exceptions=False) propagates
TaskEnds(i, r, bytes) ==
    /\ tasks' = [tasks EXCEPT ![i] = [at |-> IF r.kind = "raise"
                                               THEN "raised" ELSE "returned",
                                       image_bytes |-> bytes,
                                       out |-> r]]
    /\ gather_exc' = IF r.kind = "raise" /\ gather_exc = None
                        THEN r ELSE gather_exc

\* an attempt whose request gave no image is issued again
ImageModelResponds_reissues(i, ext) ==
    /\ tasks[i].at = "request"
    /\ LET r == call_gemini_request(ext) IN
       IF r.kind = "await"
         THEN /\ tasks' = [tasks EXCEPT ![i] =
                              [at |-> "evaluate",
                               image_bytes |-> r.image_bytes,
                               out |-> None]]
              /\ eval_calls' = eval_calls + 1
              /\ UNCHANGED <<gather_exc, gen_requests>>
         ELSE IF r.kind = "return" /\ gen_requests <= MAX_RETRIES
           THEN /\ gen_requests' = gen_requests + 1
                /\ UNCHANGED <<tasks, gather_exc, eval_calls>>
         ELSE /\ TaskEnds(i, r, 0)
              /\ UNCHANGED <<eval_calls, gen_requests>>
    /\ UNCHANGED <<pc, prompt, input_images, filename_prefix, selector_arg,
                   outcome, evalVars, storyVars, restVars>>

\* the generate_content request of attempt i completes
ImageModelResponds(i, ext) ==
    /\ tasks[i].at = "request"
    /\ LET r == call_gemini_request(ext) IN
       IF r.kind = "await"
         THEN /\ tasks' = [tasks EXCEPT ![i] =
                              [at |-> "evaluate",
                               image_bytes |-> r.image_bytes,
                               out |-> None]]
              /\ eval_calls' = eval_calls + 1
              /\ UNCHANGED gather_exc
         ELSE /\ TaskEnds(i, r, 0)
              /\ UNCHANGED eval_calls
    /\ UNCHANGED <<pc, prompt, input_images, filename_prefix, selector_arg,
                   outcome, gen_requests, evalVars, storyVars,
                   restVars>>

\* the judge call of attempt i completes: evaluate_media ends, and
\* call_gemini_image_api after it
JudgeResponds(i, ext) ==
    /\ tasks[i].at = "evaluate"
    /\ TaskEnds(i, call_gemini_evaluated(tasks[i].image_bytes,
                                         evaluate_media(ext)),
                tasks[i].image_bytes)
    /\ UNCHANGED <<pc, prompt, input_images, filename_prefix, selector_arg,
                   outcome, gen_requests, eval_calls, evalVars, storyVars,
                   restVars>>

\* every task returned: gather returns their results in task order and
\* generate_one_image runs to its end
GatherReturns ==
    /\ pc = "gather"
    /\ \A i \in Attempts : tasks[i].at = "returned"
    /\ LET results == [i \in Attempts |-> tasks[i].out.value]
           sel == generate_one_image_select(results, prompt, filename_prefix)
       IN /\ outcome' = sel.out
          /\ selector_arg' = sel.selector
          /\ pc' = IF sel.out.kind = "raise" THEN "raised" ELSE "returned"
    /\ UNCHANGED <<prompt, input_images, filename_prefix, tasks, gather_exc,
                   gen_requests, eval_calls, evalVars, storyVars,
                   restVars>>

\* a task raised: gather propagates its exception out of generate_one_image;
\* the other tasks are not cancelled
GatherRaises ==
    /\ pc = "gather"
    /\ gather_exc # None
    /\ outcome' = gather_exc
    /\ pc' = "raised"
    /\ UNCHANGED <<prompt, input_images, filename_prefix, tasks, gather_exc,
                   selector_arg, gen_requests, eval_calls, evalVars, storyVars,
                   restVars>>

Next ==
    \/ \E p \in PromptInputs, n \in 0..MaxImages, prefix \in PrefixInputs :
          GenerateOneImage(p, n, prefix)
    \/ \E i \in Attempts :
          \E ext \in ImageModelRaises \cup ImageModelAnswers(i) :
          ImageModelResponds(i, ext)
    \/ \E i \in Attempts, ext \in JudgeRaises \cup JudgeAnswers(EvalPool) :
          JudgeResponds(i, ext)
    \/ GatherReturns
    \/ GatherRaises

Spec == Init /\ [][Next]_vars

-----------------------------------------------------------------------------
(* The evaluator on its own: one call of evaluate_media for each thing the *)
(* judge call can do, then the score of what it returned.                  *)

EvaluateMedia(ext) ==
    /\ em_pc = "idle"
    /\ em_out' = evaluate_media(ext)
    /\ em_pc' = IF evaluate_media(ext).kind = "raise"
                  THEN "raised" ELSE "returned"
    /\ UNCHANGED <<score, imgVars, storyVars, restVars>>

CalculateEvaluationScore ==
    /\ em_pc = "returned"
    /\ score' = calculate_evaluation_score(em_out.value)
    /\ em_pc' = "scored"
    /\ UNCHANGED <<em_out, imgVars, storyVars, restVars>>

NextEval ==
    \/ \E ext \in JudgeRaises \cup JudgeAnswers(EvalResult) : EvaluateMedia(ext)
    \/ CalculateEvaluationScore

SpecEval == Init /\ [][NextEval]_vars

-----------------------------------------------------------------------------
(* generate_images_from_storyline.                                         *)

ASSET_SHEET_FILENAME == <<"asset_sheet.png">>
LOGO_GCS_URI == <<"gs://", "GCS_BUCKET", "/", "branding_logos", "/", "logo.png">>

\* image_filename.startswith("gs://")
StartsWithGs(f) == f # <<>> /\ f[1] = "gs://"

\* name.split("/")[-1]
LastSegment(f) ==
    LET slashes == {k \in 1..Len(f) : f[k] \in {"/", "gs://"}}
        last == IF slashes = {} THEN 0
                ELSE CHOOSE k \in slashes : \A m \in slashes : m <= k
    IN SubSeq(f, last + 1, Len(f))

\* ensure_image_artifact: the artifact's name (<<>> for None) and the
\* save_artifact call it made.  gcs_ok: the download from GCS and the save
\* went through; store_ok: list_artifacts and load_artifact did not raise.
ensure_image_artifact(image_filename, gcs_ok, store_ok) ==
    IF StartsWithGs(image_filename) /\ gcs_ok
      THEN LET gcs_uri == Tail(image_filename) IN
           [name |-> LastSegment(gcs_uri),
            saved |-> <<[filename |-> LastSegment(gcs_uri),
                         data |-> [gcs |-> gcs_uri]]>>]
      ELSE LET name == IF StartsWithGs(image_filename)
                         THEN LastSegment(image_filename)
                         ELSE image_filename IN
           [name |-> IF store_ok THEN name ELSE <<>>, saved |-> <<>>]

\* ord() of the characters of a generated filename
Ord(c) ==
    CASE c = "." -> 46
      [] c = "_" -> 95
      [] c = "g" -> 103
      [] c = "n" -> 110
      [] c = "p" -> 112
      [] OTHER -> 47 + CHOOSE d \in 1..10 : Digits[d] = c

RECURSIVE StrLess(_, _)
\* a < b for two str
StrLess(a, b) ==
    IF b = <<>> THEN FALSE
    ELSE IF a = <<>> THEN TRUE
    ELSE IF Head(a) = Head(b) THEN StrLess(Tail(a), Tail(b))
    ELSE Ord(Head(a)) < Ord(Head(b))

\* r.get("filename", "")
filename_key(r) == IF "filename" \in DOMAIN r THEN r.filename ELSE <<>>

RECURSIVE InsertSorted(_, _)
\* r put into the sorted list after every item that is not greater than it
InsertSorted(sorted, r) ==
    IF sorted = <<>> THEN <<r>>
    ELSE IF StrLess(filename_key(r), filename_key(Head(sorted)))
      THEN <<r>> \o sorted
    ELSE <<Head(sorted)>> \o InsertSorted(Tail(sorted), r)

RECURSIVE SortByFilename(_)
\* results.sort(key=lambda r: r.get("filename", "")), a stable sort
SortByFilename(results) ==
    IF results = <<>> THEN <<>>
    ELSE InsertSorted(SortByFilename(SubSeq(results, 1, Len(results) - 1)),
                      results[Len(results)])

\* _save_generated_images: whether result r is saved
IsSaved(r) ==
    /\ r.status = "success"
    /\ "image_bytes" \in DOMAIN r
    /\ r.image_bytes # 0

\* a save of the first selected image only
SavedArtifacts_firstOnly(results) ==
    LET kept == SelectSeq(results, IsSaved) IN
    [k \in 1..(IF kept = <<>> THEN 0 ELSE 1) |->
        [filename |-> kept[k].filename,
         data |-> [image_bytes |-> kept[k].image_bytes]]]

\* the save_artifact calls of _save_generated_images, in order
SavedArtifacts(results) ==
    LET kept == SelectSeq(results, IsSaved) IN
    [k \in 1..Len(kept) |->
        [filename |-> kept[k].filename,
         data |-> [image_bytes |-> kept[k].image_bytes]]]

\* a return of the saved records only
AfterSave_dropsFailed(results) ==
    LET kept == SelectSeq(results, IsSaved) IN
    [k \in 1..Len(kept) |->
        [status |-> "success",
         detail |-> <<"Image stored as ">> \o kept[k].filename \o <<".">>,
         filename |-> kept[k].filename]]

\* the results as _save_generated_images leaves them
AfterSave(results) ==
    [k \in 1..Len(results) |->
        IF IsSaved(results[k])
          THEN [status |-> "success",
                detail |-> <<"Image stored as ">> \o results[k].filename
                             \o <<".">>,
                filename |-> results[k].filename]
          ELSE results[k]]

\* json.dumps(res): the JSON text of the record
json_dumps(res) == [json |-> res]

\* an early return: the list of one failed record
FailedList(detail) ==
    Return(<<json_dumps([status |-> "failed", detail |-> detail])>>)

\* a task creation that gives every scene the asset sheet
create_image_generation_task_sheetOnly(scene_num, p, is_logo_scene) ==
    [scene_num |-> scene_num,
     prompt |-> p,
     input_images |-> <<"asset_sheet_image">>,
     filename_prefix |-> IntToStr(scene_num) \o <<"_">>,
     at |-> "running",
     out |-> None]

\* _create_image_generation_task for position i (from 0) of scenes_to_generate
create_image_generation_task(scene_num, p, is_logo_scene) ==
    [scene_num |-> scene_num,
     prompt |-> IF is_logo_scene
                  THEN <<"Place the company logo centered on the following background: ">>
                         \o p
                  ELSE p,
     input_images |-> IF is_logo_scene THEN <<"logo_image">>
                      ELSE <<"asset_sheet_image">>,
     filename_prefix |-> IntToStr(scene_num) \o <<"_">>,
     at |-> "running",
     out |-> None]

\* scene_numbers if scene_numbers is not None else range(len(prompts))
scenes_to_generate(a) ==
    IF a.scene_numbers.given THEN a.scene_numbers.list
    ELSE [k \in 1..Len(a.prompts) |-> k - 1]

\* a loop that does not skip the positions beyond the prompts
create_tasks_noSkip(a) ==
    LET scenes == scenes_to_generate(a) IN
    [k \in 1..Len(scenes) |->
        create_image_generation_task(
            scenes[k],
            IF k <= Len(a.prompts) THEN a.prompts[k] ELSE <<>>,
            a.logo_prompt_present /\ k = Len(a.prompts))]

\* the loop that creates the tasks: position i of the scenes gets prompts[i];
\* positions beyond the prompts are skipped
create_tasks(a) ==
    LET scenes == scenes_to_generate(a)
        kept == {k \in 1..Len(scenes) : k <= Len(a.prompts)}
    IN [k \in 1..Cardinality(kept) |->
           create_image_generation_task(
               scenes[k], a.prompts[k],
               a.logo_prompt_present /\ k = Len(a.prompts))]

\* the function up to await asyncio.gather(*tasks): an early return, or the
\* tasks; with the artifacts it loaded and saved on the way.  env is what the
\* artifact store and GCS do.
storyline_prologue(a, env) ==
    LET logo == ensure_image_artifact(a.logo_filename, env.logo_gcs,
                                      env.logo_store)
        sheet == ensure_image_artifact(a.asset_sheet_filename, env.sheet_gcs,
                                       env.sheet_store)
        \* the load_artifact calls of the function itself and whether a Part
        \* came back
        logo_loaded == <<[name |-> logo.name, part |-> env.logo_load]>>
        sheet_loaded == <<[name |-> sheet.name, part |-> env.sheet_load]>>
        logo_saved == IF a.logo_prompt_present THEN logo.saved ELSE <<>>
        logo_done == IF a.logo_prompt_present THEN logo_loaded ELSE <<>>
        stop(detail, lo, sv) == [early |-> TRUE, out |-> FailedList(detail),
                                 loaded |-> lo, saved |-> sv]
    IN
    IF ~env.client
      THEN stop(<<"Gemini client not initialized.">>, <<>>, <<>>)
    ELSE IF a.logo_prompt_present /\ a.logo_filename = <<>>
      THEN stop(<<"logo_filename must be set if logo_prompt_present is True.">>,
                <<>>, <<>>)
    ELSE IF a.logo_prompt_present /\ logo.name = <<>>
      THEN stop(<<"Failed to load logo from '", "None", "'">>, <<>>, logo_saved)
    ELSE IF a.logo_prompt_present /\ ~env.logo_load
      THEN stop(<<"Failed to load logo content from '">> \o logo.name
                  \o <<"'.">>, logo_loaded, logo_saved)
    ELSE IF sheet.name = <<>>
      \* the detail of this record is a one-element tuple, a JSON list
      THEN stop(<<"Failed to load asset sheet from '", "None", "'.">>,
                logo_done, logo_saved \o sheet.saved)
    ELSE IF ~env.sheet_load
      THEN stop(<<"Failed to load asset sheet content from '">> \o sheet.name
                  \o <<"'.">>,
                logo_done \o sheet_loaded, logo_saved \o sheet.saved)
    ELSE [early |-> FALSE, tasks |-> create_tasks(a),
          loaded |-> logo_done \o sheet_loaded,
          saved |-> logo_saved \o sheet.saved]

\* generate_one_image as a task of the storyline: batch is how its
\* asyncio.gather ends, with the results of the attempts or with the
\* exception of one of them
generate_one_image(p, images, prefix, batch) ==
    IF images = <<>>
      THEN Return([status |-> "failed", detail |-> NoInputDetail])
    ELSE IF batch.kind = "raise" THEN Raise(batch.exc)
    ELSE generate_one_image_select(batch.results, p, prefix).out

\* the judge's answer the storyline model draws: every field "Pass"
StoryEvals == {e \in EvalResult :
                  \A k \in 1..Len(score_mapping) :
                      e[score_mapping[k][1]] = "Pass"}

\* the exceptions that leave call_gemini_image_api
AttemptRaises == {e \in ApiErrors \cup {"AttributeError"} :
                     ~Caught(e, CallGeminiCatches)}

\* what attempt i of task t returns: None, or the bytes generated for it
\* with what evaluate_media returned
AttemptReturns(t, i) ==
    {None} \cup {[image_bytes |-> MAX_RETRIES * (t - 1) + i,
                  evaluation |-> ev,
                  mime_type |-> IMAGE_MIME_TYPE] : ev \in StoryEvals \cup {None}}

\* how the asyncio.gather of task t can end
Batches(t) ==
    {[kind |-> "raise", exc |-> e] : e \in AttemptRaises}
      \cup {[kind |-> "results", results |-> <<r1, r2, r3>>] :
               r1 \in AttemptReturns(t, 1), r2 \in AttemptReturns(t, 2),
               r3 \in AttemptReturns(t, 3)}

PromptText(k) == <<"prompt of scene ">> \o IntToStr(k)

RECURSIVE SeqsUpTo(_, _)
\* the sequences over S of length at most n
SeqsUpTo(S, n) ==
    IF n = 0 THEN {<<>>}
    ELSE LET shorter == SeqsUpTo(S, n - 1) IN
         shorter \cup {Append(q, x) : q \in shorter, x \in S}

\* the scene numbers the lists are made of; "10_.png" sorts before "1_.png"
SceneNumberInputs == {0, 1, 10}

StoryArgs ==
    [prompts : {[k \in 1..n |-> PromptText(k - 1)] : n \in 0..MaxPrompts},
     scene_numbers : {[given |-> FALSE]}
                       \cup {[given |-> TRUE, list |-> l] :
                               l \in SeqsUpTo(SceneNumberInputs, MaxScenes)},
     logo_filename : {<<>>, LOGO_GCS_URI},
     asset_sheet_filename : {ASSET_SHEET_FILENAME},
     logo_prompt_present : BOOLEAN]

StoryEnvs ==
    [client : BOOLEAN, logo_gcs : BOOLEAN, logo_store : BOOLEAN,
     logo_load : BOOLEAN, sheet_gcs : BOOLEAN, sheet_store : BOOLEAN,
     sheet_load : BOOLEAN]

\* generate_images_from_storyline is called and runs up to its
\* await asyncio.gather(*tasks); the tasks each run up to the requests of
\* their attempts
GenerateImagesFromStoryline(a, env) ==
    /\ gs_pc = "idle"
    /\ gs_args' = [prompts |-> a.prompts,
                   scene_numbers |-> a.scene_numbers,
                   logo_prompt_present |-> a.logo_prompt_present]
    /\ LET pr == storyline_prologue(a, env) IN
       /\ loaded' = pr.loaded
       /\ artifacts' = pr.saved
       /\ IF pr.early
            THEN /\ gs_out' = pr.out
                 /\ gs_pc' = "returned"
                 /\ UNCHANGED <<gs_tasks, gs_requests>>
            ELSE /\ gs_tasks' = pr.tasks
                 /\ gs_requests' = gs_requests + MAX_RETRIES * Len(pr.tasks)
                 /\ gs_pc' = "gather"
                 /\ UNCHANGED gs_out
    /\ UNCHANGED <<gs_gather_exc, imgVars, evalVars, restVars>>

\* the generate_one_image task t ends
SceneTaskEnds(t, batch) ==
    /\ gs_tasks[t].at = "running"
    /\ LET r == generate_one_image(gs_tasks[t].prompt,
                                   gs_tasks[t].input_images,
                                   gs_tasks[t].filename_prefix, batch) IN
       /\ gs_tasks' = [gs_tasks EXCEPT
                         ![t].at = IF r.kind = "raise" THEN "raised"
                                   ELSE "returned",
                         ![t].out = r]
       /\ gs_gather_exc' = IF r.kind = "raise" /\ gs_gather_exc = None
                             THEN r ELSE gs_gather_exc
    /\ UNCHANGED <<gs_pc, gs_args, gs_out, gs_requests, loaded, artifacts,
                   imgVars, evalVars, restVars>>

\* every task returned (or there is none): the results are sorted by
\* filename, the selected images are saved and the list is returned
StoryGatherReturns ==
    /\ gs_pc = "gather"
    /\ \A t \in 1..Len(gs_tasks) : gs_tasks[t].at = "returned"
    /\ LET results == SortByFilename(
                          [t \in 1..Len(gs_tasks) |-> gs_tasks[t].out.value])
           final == AfterSave(results)
       IN /\ artifacts' = artifacts \o SavedArtifacts(results)
          /\ gs_out' = Return([k \in 1..Len(final) |-> json_dumps(final[k])])
    /\ gs_pc' = "returned"
    /\ UNCHANGED <<gs_args, gs_tasks, gs_gather_exc, gs_requests, loaded,
                   imgVars, evalVars, restVars>>

\* a task raised: gather propagates its exception out of the call
StoryGatherRaises ==
    /\ gs_pc = "gather"
    /\ gs_gather_exc # None
    /\ gs_out' = gs_gather_exc
    /\ gs_pc' = "raised"
    /\ UNCHANGED <<gs_args, gs_tasks, gs_gather_exc, gs_requests, loaded,
                   artifacts, imgVars, evalVars, restVars>>

NextStory ==
    \/ /\ gs_pc = "idle"
       /\ \E a \in StoryArgs, env \in StoryEnvs :
             GenerateImagesFromStoryline(a, env)
    \/ \E t \in 1..Len(gs_tasks) : \E batch \in Batches(t) :
          SceneTaskEnds(t, batch)
    \/ StoryGatherReturns
    \/ StoryGatherRaises

SpecStory == Init /\ [][NextStory]_vars

-----------------------------------------------------------------------------
(* The selection of generate_one_image on one list of successful attempts  *)
(* and on the same attempts in another order.                              *)

\* the lists of n successful attempts; the bytes of an attempt, its position
\* in the list, tell it apart
AttemptLists(n) ==
    {[k \in 1..n |-> [image_bytes |-> k,
                      evaluation |-> ev[k],
                      mime_type |-> IMAGE_MIME_TYPE]] :
        ev \in [1..n -> EvalPool \cup {None}]}

\* the results asyncio.gather can return when every attempt gave an image
SelectorInputs == UNION {AttemptLists(n) : n \in 1..MAX_RETRIES}

\* the orders in which n results can come
Orders(n) ==
    {o \in [1..n -> 1..n] : \A a, b \in 1..n : a # b => o[a] # o[b]}

\* the results in the order o
Reordered(results, o) == [k \in 1..Len(results) |-> results[o[k]]]

\* the best_attempt of generate_one_image for the results
best_attempt_of(results) == PyMax(successful_attempts(results))

\* the results of a batch and a second order of them are drawn
SelectorGiven(results, o) ==
    /\ sel_pc = "idle"
    /\ sel_results' = results
    /\ sel_order' = o
    /\ sel_pc' = "chosen"
    /\ UNCHANGED <<sel_best, imgVars, evalVars, storyVars, videoVars,
                   audioVars, lateVars>>

\* max() selects on the results in either order
SelectBest ==
    /\ sel_pc = "chosen"
    /\ sel_best' = [given |-> best_attempt_of(sel_results),
                    reordered |-> best_attempt_of(
                                      Reordered(sel_results, sel_order))]
    /\ sel_pc' = "selected"
    /\ UNCHANGED <<sel_results, sel_order, imgVars, evalVars, storyVars,
                   videoVars, audioVars, lateVars>>

NextSelect ==
    \/ /\ sel_pc = "idle"
       /\ \E results \in SelectorInputs : \E o \in Orders(Len(results)) :
             SelectorGiven(results, o)
    \/ SelectBest

SpecSelect == Init /\ [][NextSelect]_vars

-----------------------------------------------------------------------------
(* _generate_single_video and _monitor_video_operation.  An Optional[str]  *)
(* that is returned is None or Str(pieces).  operation.error is None or a  *)
(* dict, given by its keys and its "message"; operation.result is None or  *)
(* a response whose generated_videos is None or List(items).               *)

Str(s) == [str |-> s]
List(items) == [items |-> items]

\* bool(x) of an Optional[str]
StrTruthy(x) == x # None /\ x.str # <<>>

\* the interval of asyncio.sleep in the monitor loop
POLL_INTERVAL == 15

\* the operation stays pending for at most MaxPolls status checks
MaxPolls == 3

\* a GeneratedVideo: its video is None, or a Video whose video_bytes are
\* 0 (None or empty) or the bytes n
GeneratedVideos == {[video |-> None]}
                     \cup {[video |-> [video_bytes |-> n]] : n \in 0..2}

\* operation.error
ErrorPayloads ==
    {None,
     [keys |-> {}, message |-> <<>>],
     [keys |-> {"code"}, message |-> <<>>],
     [keys |-> {"code", "message"}, message |-> <<>>],
     [keys |-> {"code", "message"}, message |-> <<"quota exceeded">>]}

\* operation.result
ResultPayloads ==
    {None, [generated_videos |-> None], [generated_videos |-> List(<<>>)]}
      \cup {[generated_videos |-> List(<<v>>)] : v \in GeneratedVideos}
      \cup {[generated_videos |-> List(<<[video |-> [video_bytes |-> 1]],
                                          [video |-> [video_bytes |-> 2]]>>)]}

PendingOperation == [done |-> FALSE, error |-> None, result |-> None]
DoneOperations ==
    {[done |-> TRUE, error |-> e, result |-> r] :
        e \in ErrorPayloads, r \in ResultPayloads}

\* the classes the calls of the video client raise; ClientError stands for
\* every class that _generate_single_video does not catch
VideoErrors == {"Aborted", "ValueError", "ClientError"}

\* except (api_exceptions.Aborted, ValueError) of _generate_single_video
GenerateSingleVideoCatches == {"Aborted", "ValueError"}

\* what generate_videos and operations.get do: raise, or give the operation
VideoClientRaises == {[kind |-> "raise", exc |-> e] : e \in VideoErrors}
VideoClientGives(ops) == {[kind |-> "operation", operation |-> o] : o \in ops}

\* bool(operation.error): a dict with a key
ErrorTruthy(op) == op.error # None /\ op.error.keys # {}

\* operation.error.get("message", str(operation.error))
ErrorMessage(op) ==
    IF "message" \in op.error.keys THEN Str(op.error.message)
    ELSE Str(<<"str(operation.error)">>)

NoVideosMessage == Str(<<"No videos found in the response.">>)
NoContentMessage == Str(<<"Generated video has no content.">>)

\* _monitor_video_operation from the end of its while loop on
monitor_video_result(op) ==
    IF ErrorTruthy(op)
      THEN Return([video |-> None, error |-> ErrorMessage(op)])
    ELSE IF ~(op.result # None /\ "generated_videos" \in DOMAIN op.result)
      THEN Return([video |-> None, error |-> NoVideosMessage])
    \* operation.result.generated_videos[0]
    ELSE IF op.result.generated_videos = None THEN Raise("TypeError")
    ELSE IF op.result.generated_videos.items = <<>> THEN Raise("IndexError")
    ELSE Return([video |-> op.result.generated_videos.items[1],
                 error |-> None])

\* the except clause of _generate_single_video
generate_single_video_except(r) ==
    IF r.kind = "raise" /\ Caught(r.exc, GenerateSingleVideoCatches)
      THEN Return([result |-> None, error |-> Str(<<"str(e)", r.exc>>)])
      ELSE r

\* video and video.video and video.video.video_bytes
HasContent(video) ==
    /\ video # None
    /\ video.video # None
    /\ video.video.video_bytes # 0

\* _generate_single_video from the return of the monitor to its await of
\* save_artifact: Await(filename, data) when there is a video to save
generate_single_video_checked(mon, input) ==
    IF mon.kind = "raise" THEN generate_single_video_except(mon)
    ELSE IF StrTruthy(mon.value.error) \/ ~HasContent(mon.value.video)
      THEN Return([result |-> None,
                   error |-> IF StrTruthy(mon.value.error)
                               THEN mon.value.error ELSE NoContentMessage])
    ELSE [kind |-> "await",
          filename |-> input.image_identifier \o <<".mp4">>,
          data |-> mon.value.video.video.video_bytes]

VideoInputs ==
    [video_query : {<<"slow pan over the shoe">>},
     image_identifier : {IntToStr(n) \o <<"_">> : n \in {0, 1}},
     duration : {4, 6}]

\* the monitor saw the operation done (or a status check raised): it ends,
\* and _generate_single_video runs to its save_artifact or to its end
MonitorEnds(mon, input) ==
    /\ mon_out' = mon
    /\ LET r == generate_single_video_checked(mon, input) IN
       IF r.kind = "await"
         THEN /\ vid_pc' = "saving"
              /\ UNCHANGED vid_out
         ELSE /\ vid_out' = r
              /\ vid_pc' = IF r.kind = "raise" THEN "raised" ELSE "returned"

\* the monitor ends at once whatever the operation says
MonitorSteps_givesUp(op, input) ==
    /\ operation' = op
    /\ MonitorEnds(monitor_video_result(op), input)
    /\ UNCHANGED sleeps

\* the while loop of the monitor with the operation it just got: it sleeps
\* when the operation is not done and ends otherwise
MonitorSteps(op, input) ==
    /\ operation' = op
    /\ IF ~op.done
         THEN /\ sleeps' = Append(sleeps, POLL_INTERVAL)
              /\ vid_pc' = "sleeping"
              /\ UNCHANGED <<mon_out, vid_out>>
         ELSE /\ MonitorEnds(monitor_video_result(op), input)
              /\ UNCHANGED sleeps

\* _generate_single_video is called: generate_videos submits the request and
\* the monitor starts
GenerateSingleVideo(input, ext) ==
    /\ vid_pc = "idle"
    /\ vid_input' = input
    /\ IF ext.kind = "raise"
         THEN /\ vid_out' = generate_single_video_except(Raise(ext.exc))
              /\ vid_pc' = IF vid_out'.kind = "raise" THEN "raised"
                           ELSE "returned"
              /\ UNCHANGED <<operation, sleeps, mon_out>>
         ELSE MonitorSteps(ext.operation, input)
    /\ UNCHANGED <<polls, vid_artifacts, imgVars, evalVars, storyVars,
                   selVars, audioVars, lateVars>>

\* the sleep is over: vertex_client.operations.get is called
PollOperation(ext) ==
    /\ vid_pc = "sleeping"
    /\ polls' = polls + 1
    /\ IF ext.kind = "raise"
         THEN /\ MonitorEnds(Raise(ext.exc), vid_input)
              /\ UNCHANGED <<operation, sleeps>>
         ELSE /\ ext.operation.done \/ polls + 1 < MaxPolls
              /\ MonitorSteps(ext.operation, vid_input)
    /\ UNCHANGED <<vid_input, vid_artifacts, imgVars, evalVars, storyVars,
                   selVars, audioVars, lateVars>>

\* tool_context.save_artifact of the video ends
VideoSaved(ext) ==
    /\ vid_pc = "saving"
    /\ LET filename == vid_input.image_identifier \o <<".mp4">> IN
       IF ext.kind = "raise"
         THEN /\ vid_out' = generate_single_video_except(Raise(ext.exc))
              /\ UNCHANGED vid_artifacts
         ELSE /\ vid_artifacts' = Append(vid_artifacts,
                    [filename |-> filename,
                     data |-> mon_out.value.video.video.video_bytes,
                     mime_type |-> "video/mp4"])
              /\ vid_out' = Return([result |-> [name |-> filename],
                                    error |-> None])
    /\ vid_pc' = IF vid_out'.kind = "raise" THEN "raised" ELSE "returned"
    /\ UNCHANGED <<vid_input, operation, polls, sleeps, mon_out, imgVars,
                   evalVars, storyVars, selVars, audioVars, lateVars>>

NextVideo ==
    \/ \E input \in VideoInputs :
          \E ext \in VideoClientRaises
                       \cup VideoClientGives({PendingOperation}
                                               \cup DoneOperations) :
             GenerateSingleVideo(input, ext)
    \/ \E ext \in VideoClientRaises
                    \cup VideoClientGives({PendingOperation}
                                            \cup DoneOperations) :
          PollOperation(ext)
    \/ \E ext \in VideoClientRaises \cup {[kind |-> "saved"]} :
          VideoSaved(ext)

SpecVideo == Init /\ [][NextVideo]_vars

\* the event loop runs the suspended call on, and the remote operation
\* answers a status check
SpecVideoLive == SpecVideo /\ WF_vars(NextVideo)

-----------------------------------------------------------------------------
(* generate_audio.  The call is suspended at the session.post of each      *)
(* attempt; what follows the response (reading the body, save_artifact,    *)
(* the back-off sleep) is part of the step that handles it.                *)

\* MAX_RETRIES of generate_audio.py
AUDIO_MAX_RETRIES == 3
STATIC_AUDIO_FALLBACK == <<"static/audio/audio_track_1.mp3">>

\* resp.status in [429, 500, 503]
TransientStatuses == {429, 500, 503}

\* What the audio service does for one request.  The post raises; or it
\* answers 200 with a payload that is valid or not (no predictions, no
\* bytesBase64Encoded, not base64), and save_artifact of a valid one at
\* time int(time.time()) goes through or raises; or it answers another
\* status, and reading resp.text() goes through or raises.
AudioResponses ==
    {[kind |-> "raise"]}
      \cup {[kind |-> "response", status |-> 200, payload |-> "invalid"]}
      \cup {[kind |-> "response", status |-> 200, payload |-> "valid",
             time |-> t, save |-> sv] :
               t \in {1700000000, 1700000007}, sv \in {"saved", "raise"}}
      \cup {[kind |-> "response", status |-> st, text |-> tx] :
               st \in TransientStatuses \cup {400, 404},
               tx \in {"read", "raise"}}

RECURSIVE Pow2(_)
\* 2**attempt
Pow2(n) == IF n = 0 THEN 1 ELSE 2 * Pow2(n - 1)

\* a fallback that is no dict
audio_fallback_none == Return(None)

\* return {"name": STATIC_AUDIO_FALLBACK}
audio_fallback == Return([name |-> STATIC_AUDIO_FALLBACK])

\* whether the try body of an attempt raises
audio_attempt_raises(resp) ==
    \/ resp.kind = "raise"
    \/ resp.status = 200 /\ resp.payload = "invalid"
    \/ resp.status = 200 /\ resp.payload = "valid" /\ resp.save = "raise"
    \/ resp.status # 200 /\ resp.text = "raise"

\* an iteration that goes on to the next attempt after any status but 200
audio_attempt_retriesAll(attempt, resp) ==
    LET backoff == <<[attempt |-> attempt, base |-> Pow2(attempt)]>>
        filename == <<"audio_">> \o IntToStr(resp.time) \o <<".wav">>
    IN
    IF audio_attempt_raises(resp)
      THEN [ends |-> "continue",
            sleeps |-> IF attempt < AUDIO_MAX_RETRIES - 1 THEN backoff
                       ELSE <<>>,
            saved |-> <<>>,
            log |-> [event |-> "error", status |-> 0]]
    ELSE IF resp.status = 200
      THEN [ends |-> "return",
            sleeps |-> <<>>,
            saved |-> <<[filename |-> filename, mime_type |-> "audio/wav"]>>,
            log |-> [event |-> "generated", status |-> 200]]
    ELSE [ends |-> "continue", sleeps |-> backoff, saved |-> <<>>,
          log |-> [event |-> "transient", status |-> resp.status]]

\* One iteration of the for loop from the response on: how it ends
\* ("return", "continue" to the next value of range(MAX_RETRIES), "break"),
\* the asyncio.sleep it makes, the artifact it saves, and what it logs
\* (status 0: an exception, no status).
audio_attempt(attempt, resp) ==
    LET backoff == <<[attempt |-> attempt, base |-> Pow2(attempt)]>>
        filename == <<"audio_">> \o IntToStr(resp.time) \o <<".wav">>
    IN
    IF audio_attempt_raises(resp)
      \* except (aiohttp.ClientError, ValueError, Exception)
      THEN [ends |-> "continue",
            sleeps |-> IF attempt < AUDIO_MAX_RETRIES - 1 THEN backoff
                       ELSE <<>>,
            saved |-> <<>>,
            log |-> [event |-> "error", status |-> 0]]
    ELSE IF resp.status = 200
      THEN [ends |-> "return",
            sleeps |-> <<>>,
            saved |-> <<[filename |-> filename, mime_type |-> "audio/wav"]>>,
            log |-> [event |-> "generated", status |-> 200]]
    ELSE IF resp.status \in TransientStatuses
      THEN [ends |-> "continue", sleeps |-> backoff, saved |-> <<>>,
            log |-> [event |-> "transient", status |-> resp.status]]
    ELSE [ends |-> "break", sleeps |-> <<>>, saved |-> <<>>,
          log |-> [event |-> "non-retryable", status |-> resp.status]]

AudioQueries == {<<"upbeat synth">>, <<"calm piano">>}

\* os.environ has GOOGLE_CLOUD_PROJECT; google.auth gives a token
AudioEnvs == [project_id : BOOLEAN, credentials : BOOLEAN]

\* generate_audio is called and runs up to the session.post of attempt 0
GenerateAudio(audio_query, env) ==
    /\ au_pc = "idle"
    /\ IF ~env.project_id \/ ~env.credentials
         THEN /\ au_out' = audio_fallback
              /\ au_pc' = "returned"
              /\ UNCHANGED au_requests
         ELSE /\ au_requests' = <<[attempt |-> 0, prompt |-> audio_query]>>
              /\ au_pc' = "posted"
              /\ UNCHANGED au_out
    /\ UNCHANGED <<au_attempt, au_sleeps, au_log, au_artifacts, imgVars,
                   evalVars, storyVars, selVars, videoVars, lateVars>>

\* the request of the current attempt is answered: the iteration ends, and
\* the loop goes on to the next session.post or the function returns
AudioResponds(resp) ==
    /\ au_pc = "posted"
    /\ LET it == audio_attempt(au_attempt, resp)
           more == it.ends = "continue" /\ au_attempt + 1 < AUDIO_MAX_RETRIES
       IN /\ au_sleeps' = au_sleeps \o it.sleeps
          /\ au_artifacts' = au_artifacts \o it.saved
          /\ au_log' = Append(au_log, it.log)
          /\ IF it.ends = "return"
               THEN /\ au_out' = Return([name |-> it.saved[1].filename])
                    /\ au_pc' = "returned"
                    /\ UNCHANGED <<au_attempt, au_requests>>
             ELSE IF more
               THEN /\ au_attempt' = au_attempt + 1
                    /\ au_requests' = Append(au_requests,
                           [attempt |-> au_attempt + 1,
                            prompt |-> au_requests[1].prompt])
                    /\ UNCHANGED <<au_pc, au_out>>
             ELSE /\ au_out' = audio_fallback
                  /\ au_pc' = "returned"
                  /\ UNCHANGED <<au_attempt, au_requests>>
    /\ UNCHANGED <<imgVars, evalVars, storyVars, selVars, videoVars,
                   lateVars>>

NextAudio ==
    \/ \E audio_query \in AudioQueries, env \in AudioEnvs :
          GenerateAudio(audio_query, env)
    \/ \E resp \in AudioResponses : AudioResponds(resp)

SpecAudio == Init /\ [][NextAudio]_vars

\* the call is made, and the audio service answers each request or the
\* post raises (a timeout)
SpecAudioLive == SpecAudio /\ WF_vars(NextAudio)

-----------------------------------------------------------------------------
(* _round_to_nearest_veo_duration.                                         *)

\* a rounding that sends a tie to the smaller supported duration
round_to_nearest_veo_duration_tieDown(duration) ==
    IF duration <= 5 THEN 4
    ELSE IF duration <= 7 THEN 6
    ELSE 8

\* _round_to_nearest_veo_duration(duration)
round_to_nearest_veo_duration(duration) ==
    IF duration <= 4 THEN 4
    ELSE IF duration <= 6 THEN 6
    ELSE 8

\* the durations the function is called with
DurationInputs == (0 - MaxDuration)..MaxDuration

\* _round_to_nearest_veo_duration is called and returns
RoundToNearestVeoDuration(duration) ==
    /\ dur_pc = "idle"
    /\ dur_in' = duration
    /\ dur_out' = round_to_nearest_veo_duration(duration)
    /\ dur_pc' = "returned"
    /\ UNCHANGED <<baseVars, lateButDur>>

NextDuration == \E duration \in DurationInputs :
                    RoundToNearestVeoDuration(duration)

SpecDuration == Init /\ [][NextDuration]_vars

-----------------------------------------------------------------------------
(* generate_video.  The image sources are loaded one after the other       *)
(* before any task exists, so the loads are part of the step that makes    *)
(* the call; each _generate_single_video task then ends in a step of its   *)
(* own, in any order, with one of the ends the model of the single video   *)
(* above gives it.                                                         *)

PNG == <<".", "p", "n", "g">>

\* a file of GCS_TEMPLATE_IMAGE_FOLDER as _get_gcs_files lists it
TEMPLATE_IMAGE_URI == <<"gs://", "GCP_PROJECT-contentgen-static", "/",
                        "template_images", "/", "s", "h", "o", "e">> \o PNG

\* s.split(sep)[0]
SplitFirst(s, sep) ==
    LET at == {k \in 1..Len(s) : s[k] = sep} IN
    IF at = {} THEN s
    ELSE SubSeq(s, 1, (CHOOSE k \in at : \A m \in at : k <= m) - 1)

\* f"{i}_.png"
SceneImageName(i) == IntToStr(i) \o <<"_">> \o PNG

\* _get_image_sources; templates is what _get_gcs_files returns
get_image_sources(scene_numbers, num_images, templates) ==
    LET image_filenames ==
            IF scene_numbers # None /\ scene_numbers.items # <<>>
              THEN [k \in 1..Len(scene_numbers.items) |->
                       SceneImageName(scene_numbers.items[k])]
              ELSE [k \in 1..num_images |-> SceneImageName(k - 1)]
    IN IF image_filenames = <<>> THEN templates ELSE image_filenames

\* What load_image_resource does for a source.  An artifact is loaded with
\* its bytes or without, or load_artifact raises; RuntimeError stands for
\* every class _process_video_source does not catch.  For a gs:// source
\* image_bytes is the coroutine object of the un-awaited _load_gcs_image:
\* GenImage takes it or raises its ValidationError.
LoadOutcomes(source_path) ==
    IF StartsWithGs(source_path) THEN {"coroutine", "ValidationError"}
    ELSE {"bytes", "none", "FileNotFoundError", "GoogleAPICallError",
          "RuntimeError"}

\* except (FileNotFoundError, api_exceptions.GoogleAPICallError)
ProcessVideoSourceCatches == {"FileNotFoundError", "GoogleAPICallError"}

\* an identifier that ends before the underscore
image_identifier_of_noUnderscore(source_path) ==
    SplitFirst(LastSegment(source_path), "_")

\* os.path.basename(source_path).split(".")[0]
image_identifier_of(source_path) == SplitFirst(LastSegment(source_path), ".")

\* _process_video_source: Return of the pair (video_input, failure), or Raise
process_video_source(source_path, video_query, is_last_image, logo_prompt_present, load) ==
    IF load \in {"bytes", "coroutine"}
      THEN Return([video_input |->
                      [video_query |-> video_query,
                       image_identifier |-> image_identifier_of(source_path),
                       duration |-> IF logo_prompt_present /\ is_last_image
                                      THEN 6 ELSE 4],
                   failure |-> None])
    ELSE IF load = "none"
      THEN Return([video_input |-> None,
                   failure |-> [source |-> source_path,
                                reason |-> Str(<<"Failed image load">>)]])
    ELSE IF Caught(load, ProcessVideoSourceCatches)
      THEN Return([video_input |-> None,
                   failure |-> [source |-> source_path,
                                reason |-> Str(<<"str(e)", load>>)]])
    ELSE Raise(load)

\* the number of sources the loop of _create_video_tasks reaches
Processed(image_sources, video_queries) ==
    IF Len(image_sources) <= Len(video_queries) THEN Len(image_sources)
    ELSE Len(video_queries)

\* _create_video_tasks: Return of (tasks with task_sources, failed_videos),
\* or Raise of what the first _process_video_source that raises raised
create_video_tasks(image_sources, video_queries, logo_prompt_present, loads) ==
    LET n == Processed(image_sources, video_queries)
        done(i) == process_video_source(image_sources[i], video_queries[i],
                                        i = Len(image_sources),
                                        logo_prompt_present, loads[i])
        raising == {i \in 1..n : done(i).kind = "raise"}
        failing == {i \in 1..n : done(i).value.failure # None}
        pick(S, k) == CHOOSE i \in S : Cardinality({j \in S : j < i}) = k - 1
    IN
    IF raising # {}
      THEN Raise(done(CHOOSE i \in raising : \A j \in raising : i <= j).exc)
      ELSE Return(
             [tasks |-> [k \in 1..(n - Cardinality(failing)) |->
                            LET i == pick((1..n) \ failing, k) IN
                            [source |-> image_sources[i],
                             video_input |-> done(i).value.video_input,
                             at |-> "running",
                             cause |-> "running",
                             out |-> None]],
              failed_videos |-> [k \in 1..Cardinality(failing) |->
                                    done(pick(failing, k)).value.failure]])

\* the operations the tasks of generate_video end with
VideoTaskOperations ==
    {op \in DoneOperations :
        /\ op.error \in {None, [keys |-> {"code", "message"},
                                message |-> <<"quota exceeded">>]}
        /\ op.result \in {None, [generated_videos |-> List(<<>>)],
                          [generated_videos |-> List(<<[video |-> None]>>)],
                          [generated_videos |->
                              List(<<[video |-> [video_bytes |-> 1]]>>)]}}

\* which of the outcomes of a video generation an operation is
OperationCause(op) ==
    IF ErrorTruthy(op) THEN "operation error"
    ELSE IF \/ op.result = None
            \/ op.result.generated_videos = None
            \/ op.result.generated_videos.items = <<>>
            \/ ~HasContent(op.result.generated_videos.items[1])
      THEN "empty result"
    ELSE "success"

\* How a _generate_single_video task ends: a call of the video client or
\* save_artifact raises, or the operation is done as op and the video, when
\* there is one, is saved.
SingleVideoEnds(video_input) ==
    {[cause |-> "exception", out |-> generate_single_video_except(Raise(e))] :
        e \in VideoErrors}
      \cup {[cause |-> OperationCause(op),
             out |-> LET r == generate_single_video_checked(
                                  monitor_video_result(op), video_input)
                     IN IF r.kind = "await"
                          THEN Return([result |-> [name |-> r.filename],
                                       error |-> None])
                          ELSE r] : op \in VideoTaskOperations}

RECURSIVE LeadingDigits(_)
\* re.match(r"(\d+)", name).group(1), <<>> when there is no match
LeadingDigits(name) ==
    IF name = <<>> \/ ~(\E d \in 1..10 : Digits[d] = Head(name)) THEN <<>>
    ELSE <<Head(name)>> \o LeadingDigits(Tail(name))

RECURSIVE StrToInt(_)
\* int(s) of a str of digits
StrToInt(s) ==
    IF s = <<>> THEN 0
    ELSE 10 * StrToInt(SubSeq(s, 1, Len(s) - 1))
           + (CHOOSE d \in 0..9 : Digits[d + 1] = s[Len(s)])

\* the sort key of _process_results
video_sort_key(v) ==
    IF LeadingDigits(v.name) = <<>> THEN 0 - 1
    ELSE StrToInt(LeadingDigits(v.name))

RECURSIVE InsertByKey(_, _)
InsertByKey(sorted, v) ==
    IF sorted = <<>> THEN <<v>>
    ELSE IF video_sort_key(v) < video_sort_key(Head(sorted))
      THEN <<v>> \o sorted
    ELSE <<Head(sorted)>> \o InsertByKey(Tail(sorted), v)

RECURSIVE SortByLeadingNumber(_)
\* successful_videos.sort(key=...), a stable sort
SortByLeadingNumber(videos) ==
    IF videos = <<>> THEN <<>>
    ELSE InsertByKey(SortByLeadingNumber(SubSeq(videos, 1, Len(videos) - 1)),
                     videos[Len(videos)])

\* _process_results
process_results(results, task_sources, failed_videos) ==
    LET ok == {i \in 1..Len(results) : results[i].result # None}
        bad == (1..Len(results)) \ ok
        pick(S, k) == CHOOSE i \in S : Cardinality({j \in S : j < i}) = k - 1
    IN [successful_videos |->
            SortByLeadingNumber([k \in 1..Cardinality(ok) |->
                                    results[pick(ok, k)].result]),
        failed_videos |->
            failed_videos
              \o [k \in 1..Cardinality(bad) |->
                     LET i == pick(bad, k) IN
                     [source |-> task_sources[i],
                      reason |-> IF StrTruthy(results[i].error)
                                   THEN results[i].error
                                   ELSE Str(<<"Generation failed">>)]]]

\* the dict generate_video returns
video_report(successful_videos, failed_videos) ==
    Return([status |-> IF successful_videos # <<>> THEN "success"
                       ELSE "failed",
            detail |-> <<"Generated ">> \o IntToStr(Len(successful_videos))
                         \o <<" video(s).">>,
            videos |-> successful_videos,
            failed_videos |-> failed_videos])

VideoQuery(k) == <<"video query ">> \o IntToStr(k)

GenerateVideoArgs ==
    [video_queries : {[k \in 1..n |-> VideoQuery(k - 1)] :
                         n \in 0..MaxSources},
     num_images : 0..MaxSources,
     scene_numbers : {None} \cup {List(l) : l \in SeqsUpTo({0, 1}, MaxSources)},
     logo_prompt_present : BOOLEAN]

\* GCP_PROJECT and GCP_LOCATION are set; what _get_gcs_files returns
GenerateVideoEnvs ==
    [vertex : BOOLEAN, templates : {<<>>, <<TEMPLATE_IMAGE_URI>>}]

\* generate_video is called and runs up to its await asyncio.gather(*tasks),
\* or to its end when there is no task
GenerateVideo(a, env, loads) ==
    /\ gv_pc = "idle"
    /\ gv_args' = a
    /\ LET image_sources == get_image_sources(a.scene_numbers, a.num_images,
                                              env.templates)
           ct == create_video_tasks(image_sources, a.video_queries,
                                    a.logo_prompt_present, loads)
       IN /\ gv_sources' = image_sources
          /\ gv_client' = env.vertex
          /\ IF ~env.vertex
               \* _initialize_vertex_client raises
               THEN /\ gv_out' = Raise("ValueError")
                    /\ gv_pc' = "raised"
                    /\ loads = <<>>
                    /\ UNCHANGED <<gv_loads, gv_tasks, gv_failed>>
             ELSE /\ Len(loads) = Processed(image_sources, a.video_queries)
                  /\ \A i \in 1..Len(loads) :
                        loads[i] \in LoadOutcomes(image_sources[i])
                  /\ gv_loads' = loads
                  /\ IF ct.kind = "raise"
                       THEN /\ gv_out' = ct
                            /\ gv_pc' = "raised"
                            /\ UNCHANGED <<gv_tasks, gv_failed>>
                     ELSE /\ gv_tasks' = ct.value.tasks
                          /\ gv_failed' = ct.value.failed_videos
                          /\ IF ct.value.tasks = <<>>
                               THEN /\ gv_out' = video_report(
                                           <<>>, ct.value.failed_videos)
                                    /\ gv_pc' = "returned"
                               ELSE /\ gv_pc' = "gather"
                                    /\ UNCHANGED gv_out
    /\ UNCHANGED <<gv_gather_exc, baseVars, lateButGv>>

\* the _generate_single_video task t ends
VideoTaskEnds(t, end) ==
    /\ gv_pc = "gather"
    /\ gv_tasks[t].at = "running"
    /\ gv_tasks' = [gv_tasks EXCEPT
                      ![t].at = IF end.out.kind = "raise" THEN "raised"
                                ELSE "returned",
                      ![t].cause = end.cause,
                      ![t].out = end.out]
    /\ gv_gather_exc' = IF end.out.kind = "raise" /\ gv_gather_exc = None
                          THEN end.out ELSE gv_gather_exc
    /\ UNCHANGED <<gv_pc, gv_args, gv_sources, gv_client, gv_loads, gv_failed,
                   gv_out, baseVars, lateButGv>>

\* every task returned: the results are processed and the dict is returned
VideoGatherReturns ==
    /\ gv_pc = "gather"
    /\ \A t \in 1..Len(gv_tasks) : gv_tasks[t].at = "returned"
    /\ LET pr == process_results(
                     [t \in 1..Len(gv_tasks) |-> gv_tasks[t].out.value],
                     [t \in 1..Len(gv_tasks) |-> gv_tasks[t].source],
                     gv_failed)
       IN gv_out' = video_report(pr.successful_videos, pr.failed_videos)
    /\ gv_pc' = "returned"
    /\ UNCHANGED <<gv_args, gv_sources, gv_client, gv_loads, gv_tasks,
                   gv_failed, gv_gather_exc, baseVars, lateButGv>>

\* a task raised: gather propagates its exception out of the call
VideoGatherRaises ==
    /\ gv_pc = "gather"
    /\ gv_gather_exc # None
    /\ gv_out' = gv_gather_exc
    /\ gv_pc' = "raised"
    /\ UNCHANGED <<gv_args, gv_sources, gv_client, gv_loads, gv_tasks,
                   gv_failed, gv_gather_exc, baseVars, lateButGv>>

\* the sequences of load outcomes of at most MaxSources sources
LoadSequences ==
    SeqsUpTo({"bytes", "none", "FileNotFoundError", "GoogleAPICallError",
              "RuntimeError", "coroutine", "ValidationError"}, MaxSources)

NextGenerateVideo ==
    \/ /\ gv_pc = "idle"
       /\ \E a \in GenerateVideoArgs, env \in GenerateVideoEnvs :
             \E loads \in LoadSequences : GenerateVideo(a, env, loads)
    \/ \E t \in 1..Len(gv_tasks) :
          \E end \in SingleVideoEnds(gv_tasks[t].video_input) :
             VideoTaskEnds(t, end)
    \/ VideoGatherReturns
    \/ VideoGatherRaises

SpecGenerateVideo == Init /\ [][NextGenerateVideo]_vars

-----------------------------------------------------------------------------
(* execute_runs.  main hands one run_competition call per competition to a *)
(* ThreadPoolExecutor of args.jobs worker threads, which take the calls in *)
(* the order of their submission; as_completed gives main the calls in the *)
(* order in which they end.  A call is suspended while its `adk run`       *)
(* subprocess is active.                                                   *)

\* the competitions of competition_list.yaml
CompetitionName(k) == <<"competition-">> \o IntToStr(k)

\* the submission.csv files a run can leave under its run directory, as
\* their parts below it, in the order sorted() gives them
SubmissionPaths == <<<<"input", "submission.csv">>,
                     <<"out", "submission.csv">>,
                     <<"submission.csv">>>>

\* run_dir.rglob("submission.csv") after a run
RunDirContents == {{}, {1}, {2, 3}, {1, 2, 3}}

\* a search that keeps the files of input directories
found_submissions_all(contents) == contents

\* [s for s in run_dir.rglob("submission.csv") if "input" not in s.parts]
found_submissions(contents) ==
    {i \in contents : \A j \in 1..Len(SubmissionPaths[i]) :
                          SubmissionPaths[i][j] # "input"}

\* the end of run_competition: the entry of the last of the sorted
\* submissions, or None
submission_entry(k, contents) ==
    LET submissions == found_submissions(contents) IN
    IF submissions # {}
      THEN [competition_id |-> CompetitionName(k),
            submission_path |->
                SubmissionPaths[CHOOSE i \in submissions :
                                    \A j \in submissions : j <= i]]
      ELSE None

\* a worker thread that never counts as busy
Busy_never(k) == FALSE

\* the worker thread that runs the call of competition k is busy with it
Busy(k) == er_runs[k].at = "subprocess"

\* a worker thread is idle, or fewer than max_workers threads exist
WorkerFree ==
    Cardinality({k \in 1..Len(er_runs) : Busy(k)}) < er_jobs

\* the call the work queue of the executor hands out next
NextQueued(k) ==
    /\ er_runs[k].at = "queued"
    /\ \A j \in 1..(k - 1) : er_runs[j].at # "queued"

\* main runs up to the end of the submissions to the executor
Main(jobs, n) ==
    /\ er_pc = "idle"
    /\ er_jobs' = jobs
    /\ er_runs' = [k \in 1..n |->
                      [at |-> "queued", starts |-> 0, launches |-> 0,
                       contents |-> {}, out |-> None]]
    /\ er_pc' = "pool"
    /\ UNCHANGED <<running, er_tmp, er_submissions, er_file, baseVars,
                   lateButRun>>

\* A worker thread takes the call of competition k and runs it up to its
\* subprocess.  how: NamedTemporaryFile raises; or the input file is written
\* and open() of run.log or the launch of the subprocess raises, so that the
\* finally clause runs and the call raises; or the subprocess is launched.
RunStarts(k, how) ==
    /\ er_pc = "pool"
    /\ NextQueued(k)
    /\ WorkerFree
    /\ IF how = "launched"
         THEN /\ er_tmp' = er_tmp \cup {k}
              /\ running' = running \cup {CompetitionName(k)}
              /\ er_runs' = [er_runs EXCEPT ![k].at = "subprocess",
                                            ![k].starts = @ + 1,
                                            ![k].launches = @ + 1]
         ELSE /\ er_tmp' = IF how = "launch raises"
                             THEN (er_tmp \cup {k}) \ {k} ELSE er_tmp
              /\ running' = IF how = "launch raises"
                              THEN (running \cup {CompetitionName(k)})
                                     \ {CompetitionName(k)}
                              ELSE running
              /\ er_runs' = [er_runs EXCEPT ![k].at = "raised",
                                            ![k].starts = @ + 1,
                                            ![k].out = Raise("OSError")]
    /\ UNCHANGED <<er_pc, er_jobs, er_submissions, er_file, baseVars,
                   lateButRun>>

\* The subprocess of competition k ends, having left contents under the run
\* directory: the finally clause runs, the call returns, and main, to which
\* as_completed hands the call, appends its entry.
SubprocessEnds(k, contents) ==
    /\ er_pc = "pool"
    /\ er_runs[k].at = "subprocess"
    /\ er_tmp' = er_tmp \ {k}
    /\ running' = running \ {CompetitionName(k)}
    /\ LET result == submission_entry(k, contents) IN
       /\ er_runs' = [er_runs EXCEPT ![k].at = "returned",
                                     ![k].contents = contents,
                                     ![k].out = Return(result)]
       /\ er_submissions' = IF result # None
                              THEN Append(er_submissions, result)
                              ELSE er_submissions
    /\ UNCHANGED <<er_pc, er_jobs, er_file, baseVars, lateButRun>>

\* every call ended: the executor is shut down and submissions.jsonl is
\* written
MainWrites ==
    /\ er_pc = "pool"
    /\ \A k \in 1..Len(er_runs) : er_runs[k].at \in {"returned", "raised"}
    /\ er_file' = er_submissions
    /\ er_pc' = "written"
    /\ UNCHANGED <<er_jobs, er_runs, running, er_tmp, er_submissions,
                   baseVars, lateButRun>>

NextRuns ==
    \/ \E jobs \in 1..MaxJobs, n \in 0..MaxCompetitions : Main(jobs, n)
    \/ \E k \in 1..Len(er_runs) :
          \E how \in {"tempfile raises", "launch raises", "launched"} :
             RunStarts(k, how)
    \/ \E k \in 1..Len(er_runs) :
          \E contents \in RunDirContents : SubprocessEnds(k, contents)
    \/ MainWrites

SpecRuns == Init /\ [][NextRuns]_vars

\* the threads run on, and every `adk run` subprocess ends
SpecRunsLive == SpecRuns /\ WF_vars(NextRuns)

-----------------------------------------------------------------------------
(* generate_audio_and_voiceover.  Its generate_audio task is the call of   *)
(* generate_audio modelled above; its generate_voiceover task ends in one  *)
(* step.                                                                   *)

\* generation_mode in ["audio", "both"], in ["voiceover", "both"]
AudioRequested(mode) == mode \in {"audio", "both"}
VoiceoverRequested(mode) == mode \in {"voiceover", "both"}

GenerationModes == {"audio", "voiceover", "both", "music"}

\* What the text-to-speech service and the artifact store do for
\* generate_voiceover: synthesize_speech raises (ClientError stands for
\* every class that is no GoogleAPICallError) or answers with audio_content
\* that is empty or not, and save_artifact at time int(time.time()) goes
\* through or raises (RuntimeError stands for every class that is no
\* IOError).
VoiceoverEnvs ==
    {[speech |-> "raise", exc |-> e] :
        e \in {"GoogleAPICallError", "ClientError"}}
      \cup {[speech |-> "empty"]}
      \cup {[speech |-> "content", save |-> sv, time |-> 1700000003] :
               sv \in {"saved", "IOError", "RuntimeError"}}

\* generate_voiceover
generate_voiceover(env) ==
    IF env.speech = "raise"
      THEN IF Caught(env.exc, {"GoogleAPICallError"}) THEN Return(None)
           ELSE Raise(env.exc)
    ELSE IF env.speech = "empty" THEN Return(None)
    ELSE IF env.save = "saved"
      THEN Return([name |-> <<"voiceover_">> \o IntToStr(env.time)
                              \o <<".mp3">>])
    ELSE IF env.save = "IOError" THEN Return(None)
    ELSE Raise(env.save)

\* isinstance(res, Exception) or not res
TaskFailed(res) == res.kind = "raise" \/ res.value = None

\* f"audio: {res or 'Unknown error'}" and f"voiceover: {res or ...}"
FailureEntry(what, res) ==
    [what |-> what,
     reason |-> IF res.kind = "raise" THEN <<"str(e)", res.exc>>
                ELSE <<"Unknown error">>]

\* generate_audio_and_voiceover after its asyncio.gather: the dict it
\* returns, with the keys audio_name and voiceover_name given or not
audio_and_voiceover_response(mode, audio_res, vo_res) ==
    LET audio_failed == AudioRequested(mode) /\ TaskFailed(audio_res)
        vo_failed == VoiceoverRequested(mode) /\ TaskFailed(vo_res)
    IN Return([failures |->
                   (IF audio_failed THEN <<FailureEntry("audio", audio_res)>>
                    ELSE <<>>)
                     \o (IF vo_failed
                           THEN <<FailureEntry("voiceover", vo_res)>>
                           ELSE <<>>),
               audio_name |->
                   IF ~AudioRequested(mode) THEN [given |-> FALSE]
                   ELSE [given |-> TRUE,
                         name |-> IF audio_failed THEN STATIC_AUDIO_FALLBACK
                                  ELSE audio_res.value.name],
               voiceover_name |->
                   IF VoiceoverRequested(mode) /\ ~vo_failed
                     THEN [given |-> TRUE, name |-> vo_res.value.name]
                     ELSE [given |-> FALSE]])

\* generate_audio_and_voiceover is called and runs up to its
\* await asyncio.gather(*tasks), or returns for want of a task
GenerateAudioAndVoiceover(mode) ==
    /\ av_pc = "idle"
    /\ au_pc = "idle"
    /\ av_mode' = mode
    /\ IF ~AudioRequested(mode) /\ ~VoiceoverRequested(mode)
         THEN /\ av_out' = Return([failures |->
                               <<[what |-> "generation_mode",
                                  reason |-> <<"Invalid generation_mode: ",
                                               mode>>]>>,
                            audio_name |-> [given |-> FALSE],
                            voiceover_name |-> [given |-> FALSE]])
              /\ av_pc' = "returned"
              /\ UNCHANGED av_vo
         ELSE /\ av_vo' = [at |-> IF VoiceoverRequested(mode) THEN "running"
                                  ELSE "none",
                           out |-> None]
              /\ av_pc' = "gather"
              /\ UNCHANGED av_out
    /\ UNCHANGED <<baseVars, lateButAv>>

\* the generate_voiceover task ends
VoiceoverTaskEnds(env) ==
    /\ av_pc = "gather"
    /\ av_vo.at = "running"
    /\ av_vo' = [at |-> "ended", out |-> generate_voiceover(env)]
    /\ UNCHANGED <<av_pc, av_mode, av_out, baseVars, lateButAv>>

\* both tasks ended: gather returns their results and the dict is built
AudioAndVoiceoverReturns ==
    /\ av_pc = "gather"
    /\ AudioRequested(av_mode) => au_pc = "returned"
    /\ VoiceoverRequested(av_mode) => av_vo.at = "ended"
    /\ av_out' = audio_and_voiceover_response(av_mode, au_out, av_vo.out)
    /\ av_pc' = "returned"
    /\ UNCHANGED <<av_mode, av_vo, baseVars, lateButAv>>

\* the generate_audio task of the call runs as generate_audio does
NextAudioAndVoiceover ==
    \/ \E mode \in GenerationModes : GenerateAudioAndVoiceover(mode)
    \/ /\ av_pc = "gather"
       /\ AudioRequested(av_mode)
       /\ NextAudio
    \/ \E env \in VoiceoverEnvs : VoiceoverTaskEnds(env)
    \/ AudioAndVoiceoverReturns

SpecAudioAndVoiceover == Init /\ [][NextAudioAndVoiceover]_vars

-----------------------------------------------------------------------------
(* generate_storyline and its asset sheet.  The sheet is generated by      *)
(* MAX_RETRIES call_gemini_image_api tasks under                           *)
(* asyncio.gather(return_exceptions=True); each task ends in one step.     *)

\* MAX_RETRIES of generate_storyline.py
SHEET_MAX_RETRIES == 3

\* how task i can end: it returns None or a dict, or it raises one of the
\* classes call_gemini_image_api does not catch
SheetAttemptEnds(i) ==
    {Return(None)}
      \cup {Raise(e) : e \in AttemptRaises}
      \cup {Return([image_bytes |-> i, evaluation |-> ev,
                    mime_type |-> IMAGE_MIME_TYPE]) :
               ev \in EvalPool \cup {None}}

\* [res for res in results if isinstance(res, dict) and res]
generation_attempts(results) ==
    LET kept == SelectSeq(results,
                          LAMBDA r : r.kind = "return" /\ r.value # None)
    IN [k \in 1..Len(kept) |-> kept[k].value]

\* _generate_and_select_best_image from the return of its gather on
generate_and_select_best_image(results) ==
    LET attempts == generation_attempts(results) IN
    IF attempts = <<>> THEN Return(None)
    \* best_attempt["evaluation"].decision
    ELSE IF PyMax(attempts).evaluation = None THEN Raise("AttributeError")
    ELSE Return(PyMax(attempts))

\* _generate_asset_sheet_image from the return of
\* _generate_and_select_best_image on: what it returns (a filename or a
\* dict) and the artifact it saves
generate_asset_sheet_image(sel) ==
    IF sel.kind = "raise" THEN [out |-> sel, saved |-> <<>>]
    \* "status" in best_attempt
    ELSE IF sel.value = None THEN [out |-> Raise("TypeError"), saved |-> <<>>]
    ELSE IF "status" \in DOMAIN sel.value
      THEN [out |-> Return([dict |-> sel.value]), saved |-> <<>>]
    ELSE [out |-> Return(Str(ASSET_SHEET_FILENAME)),
          saved |-> <<[filename |-> ASSET_SHEET_FILENAME,
                       data |-> [image_bytes |-> sel.value.image_bytes]]>>]

\* the two _save_json_artifact calls; idx is int(time.time() * 1000) % 100
json_artifacts(idx) ==
    <<[filename |-> <<"visual_style_guide_">> \o IntToStr(idx)
                      \o <<".json">>,
       data |-> [text |-> "visual_style_guide"]],
      [filename |-> <<"storyline_">> \o IntToStr(idx) \o <<".json">>,
       data |-> [text |-> "storyline"]]>>

\* generate_storyline from the asset sheet on: sheet is what
\* _generate_asset_sheet_image returned, or the user's filename
storyline_epilogue(sheet, idx) ==
    IF sheet.kind = "raise" THEN [out |-> sheet, saved |-> <<>>]
    \* not asset_sheet_filename
    ELSE IF sheet.value = None
            \/ ("str" \in DOMAIN sheet.value /\ sheet.value.str = <<>>)
      THEN [out |-> Return([status |-> "failed",
                            detail |->
                                <<"Failed to generate asset sheet image.">>]),
            saved |-> <<>>]
    ELSE [out |-> Return([status |-> "success",
                          asset_sheet_filename |-> sheet.value,
                          visual_style_guide_filename |->
                              json_artifacts(idx)[1].filename,
                          storyline_filename |->
                              json_artifacts(idx)[2].filename]),
          saved |-> json_artifacts(idx)]

\* the arguments and what the services do up to the asset sheet: the module
\* has a client; _process_asset_sheet_input_images raises ValueError or
\* gives photo filenames or none; _generate_storyline_text gives an error or
\* the story; load_artifact of the photo gives a Part, None or raises
StorylineInputs ==
    [user_provided_asset_sheet : BOOLEAN,
     client : BOOLEAN,
     images : {"ValueError", "photos", "no photos"},
     story : {"error", "story"},
     photo_load : {"part", "none", "FileNotFoundError"},
     idx : {7}]

\* an early return of generate_storyline
StorylineFailed(detail) == Return([status |-> "failed", detail |-> detail])

\* generate_storyline is called and runs up to the gather of the asset sheet
\* attempts, or to its end
GenerateStoryline(a) ==
    /\ sh_pc = "idle"
    /\ a.images = "ValueError" => a.user_provided_asset_sheet
    /\ LET ends(r) == /\ sh_out' = r.out
                      /\ sh_artifacts' = r.saved
                      /\ sh_pc' = IF r.out.kind = "raise" THEN "raised"
                                  ELSE "returned"
                      /\ UNCHANGED sh_tasks
           early(detail) == ends([out |-> StorylineFailed(detail),
                                  saved |-> <<>>])
       IN
       IF ~a.client THEN early(<<"Gemini client not initialized.">>)
       ELSE IF a.images = "ValueError"
         THEN early(<<"Failed: Could not load user-provided asset sheet:">>)
       ELSE IF a.story = "error" THEN early(<<"story_data['error']">>)
       ELSE IF a.user_provided_asset_sheet
         THEN ends(storyline_epilogue(
                       Return(Str(<<"user_sheet.png">>)), a.idx))
       ELSE IF a.images = "no photos"
         THEN early(<<"Failed to populate product photos.">>)
       ELSE IF a.photo_load = "FileNotFoundError"
         \* the dict _generate_asset_sheet_image returns is not falsy
         THEN ends(storyline_epilogue(
                       Return([dict |->
                                 [status |-> "failed",
                                  detail |->
                                      <<"Failed to load product photo: ">>]]),
                       a.idx))
       ELSE /\ sh_tasks' = [i \in 1..SHEET_MAX_RETRIES |->
                               [at |-> "running", out |-> None]]
            /\ sh_pc' = "gather"
            /\ UNCHANGED <<sh_out, sh_artifacts>>
    /\ UNCHANGED <<baseVars, lateButSheet>>

\* the call_gemini_image_api task i of the asset sheet ends
SheetAttemptEnded(i, r) ==
    /\ sh_pc = "gather"
    /\ sh_tasks[i].at = "running"
    /\ sh_tasks' = [sh_tasks EXCEPT ![i] = [at |-> "ended", out |-> r]]
    /\ UNCHANGED <<sh_pc, sh_out, sh_artifacts, baseVars, lateButSheet>>

\* every task ended: gather returns the results and the exceptions, the best
\* attempt is selected and saved, and generate_storyline runs to its end
SheetGatherReturns(idx) ==
    /\ sh_pc = "gather"
    /\ \A i \in 1..Len(sh_tasks) : sh_tasks[i].at = "ended"
    /\ LET sheet == generate_asset_sheet_image(
                        generate_and_select_best_image(
                            [i \in 1..Len(sh_tasks) |-> sh_tasks[i].out]))
           r == storyline_epilogue(sheet.out, idx)
       IN /\ sh_out' = r.out
          /\ sh_artifacts' = sh_artifacts \o sheet.saved \o r.saved
          /\ sh_pc' = IF r.out.kind = "raise" THEN "raised" ELSE "returned"
    /\ UNCHANGED <<sh_tasks, baseVars, lateButSheet>>

NextSheet ==
    \/ /\ sh_pc = "idle"
       /\ \E a \in StorylineInputs : GenerateStoryline(a)
    \/ \E i \in 1..Len(sh_tasks) :
          \E r \in SheetAttemptEnds(i) : SheetAttemptEnded(i, r)
    \/ SheetGatherReturns(7)

SpecSheet == Init /\ [][NextSheet]_vars

-----------------------------------------------------------------------------
(* The name of a scene's artifact from stage to stage: the image stage     *)
(* saves the selected image, the video stage loads it and saves the video, *)
(* and the combine stage parses the name of the video.                     *)

\* clip_index_str.isdigit()
IsDigit(str) ==
    /\ str # <<>>
    /\ \A k \in 1..Len(str) : \E d \in 1..10 : Digits[d] = str[k]

\* _load_single_clip: clip_index_str = filename.split("_")[0] and, when it
\* is a number, clip_index = int(clip_index_str)
clip_index_of(filename) ==
    LET clip_index_str == SplitFirst(filename, "_") IN
    IF IsDigit(clip_index_str)
      THEN [isdigit |-> TRUE, clip_index |-> StrToInt(clip_index_str)]
      ELSE [isdigit |-> FALSE]

\* the image stage generated scene scene_num with success and saved it
ImageStageSaves(scene_num) ==
    /\ nm_pc = "idle"
    /\ nm_scene' = scene_num
    /\ nm_image' = SuccessRecord(
                       [image_bytes |-> 1],
                       create_image_generation_task(
                           scene_num, PromptText(scene_num), FALSE
                       ).filename_prefix).value.filename
    /\ nm_pc' = "image"
    /\ UNCHANGED <<nm_source, nm_video, nm_clip, baseVars, lateButName>>

\* the video stage is called for the scene, by its number in scene_numbers
\* or as one of num_images images, loads its image and saves its video
VideoStageSaves(by_scene_numbers) ==
    /\ nm_pc = "image"
    /\ LET image_sources ==
               IF by_scene_numbers
                 THEN get_image_sources(List(<<nm_scene>>), nm_scene + 1, <<>>)
                 ELSE get_image_sources(None, nm_scene + 1, <<>>)
           source_path == image_sources[IF by_scene_numbers THEN 1
                                        ELSE nm_scene + 1]
           made == process_video_source(source_path, VideoQuery(nm_scene),
                                        TRUE, FALSE, "bytes")
           saved == generate_single_video_checked(
                        Return([video |-> [video |-> [video_bytes |-> 1]],
                                error |-> None]),
                        made.value.video_input)
       IN /\ nm_source' = source_path
          /\ nm_video' = saved.filename
    /\ nm_pc' = "video"
    /\ UNCHANGED <<nm_scene, nm_image, nm_clip, baseVars, lateButName>>

\* the combine stage loads the clip of the video
CombineStageLoads ==
    /\ nm_pc = "video"
    /\ nm_clip' = clip_index_of(nm_video)
    /\ nm_pc' = "clip"
    /\ UNCHANGED <<nm_scene, nm_image, nm_source, nm_video, baseVars,
                   lateButName>>

NextNames ==
    \/ \E scene_num \in 0..MaxSceneNumber : ImageStageSaves(scene_num)
    \/ \E by_scene_numbers \in BOOLEAN : VideoStageSaves(by_scene_numbers)
    \/ CombineStageLoads

SpecNames == Init /\ [][NextNames]_vars

-----------------------------------------------------------------------------
(* Properties.                                                             *)

\* the call of generate_one_image ended, by a return or by an exception
Finished == pc \in {"returned", "raised"}

\* the call ended and so did each of its MAX_RETRIES attempts
BatchEnded ==
    Finished /\ \A i \in Attempts : tasks[i].at \in {"returned", "raised"}

\* asyncio.gather returned a result for each of the MAX_RETRIES attempts
GatherReturned == Finished /\ \A i \in Attempts : tasks[i].at = "returned"

\* attempt i is in successful_attempts
Succeeded(i) == tasks[i].at = "returned" /\ tasks[i].out.value # None
Successes == {i \in Attempts : Succeeded(i)}
ScoreOf(i) == calculate_evaluation_score(tasks[i].out.value.evaluation)

\* the call returned a success record holding the bytes of attempt i
ReturnedSuccessOf(i) ==
    /\ pc = "returned"
    /\ outcome.value.status = "success"
    /\ outcome.value.image_bytes = tasks[i].out.value.image_bytes

\* 10 for a passing decision plus 2 for each passing sub-judgment
WeightedSum(e) ==
    (IF e.decision = "Pass" THEN 10 ELSE 0)
      + 2 * Cardinality(SubWith(e, "Pass"))

\* C1: calculate_evaluation_score returns 0 for an absent evaluation and, for
\* an EvalResult, 10 if decision is Pass plus 2 for each of the six
\* sub-judgments that is Pass; the score is an integer in 0..22 fixed by the
\* evaluation alone.
ScoreIsWeightedSum ==
    em_pc = "scored" =>
        /\ score \in 0..22
        /\ score = IF em_out.value = None THEN 0
                   ELSE WeightedSum(em_out.value)

\* a failing decision with six passing sub-judgments was scored 12
ScoreIsWeightedSumWitness ==
    /\ em_pc = "scored"
    /\ em_out.value # None
    /\ em_out.value.decision = "Fail"
    /\ score = 12

\* C2: when at least one of the MAX_RETRIES attempts succeeded, the record
\* that generate_one_image returns is a success record whose bytes are those
\* of a successful attempt whose score is >= the score of every successful
\* attempt of the batch.
MaxSelection ==
    (pc = "returned" /\ Successes # {}) =>
        \E i \in Successes :
            /\ ReturnedSuccessOf(i)
            /\ \A j \in Successes : ScoreOf(i) >= ScoreOf(j)

\* the returned bytes are those of a later attempt that outscored an
\* earlier successful one
MaxSelectionWitness ==
    /\ GatherReturned
    /\ \E i, j \in Successes :
          /\ i < j
          /\ ScoreOf(j) > ScoreOf(i)
          /\ ReturnedSuccessOf(j)

\* C3: when exactly one of the MAX_RETRIES attempts ended by throwing and
\* the others returned images, the list handed to the selector has
\* MAX_RETRIES - 1 members.
IsolateAndContinue ==
    (/\ BatchEnded
     /\ Cardinality({i \in Attempts : tasks[i].at = "raised"}) = 1
     /\ Cardinality(Successes) = MAX_RETRIES - 1) =>
        /\ selector_arg.called
        /\ Len(selector_arg.arg) = MAX_RETRIES - 1

\* C4: when every successful attempt of the batch (there is one) carries an
\* evaluation whose decision is Fail, generate_one_image returns a success
\* record with the bytes of a highest-scoring attempt; it neither returns a
\* failed record nor raises.
FailOpenSelection ==
    (/\ BatchEnded
     /\ Successes # {}
     /\ \A i \in Successes :
           /\ tasks[i].out.value.evaluation # None
           /\ tasks[i].out.value.evaluation.decision = "Fail") =>
        /\ outcome.kind = "return"
        /\ \E i \in Successes :
              /\ ReturnedSuccessOf(i)
              /\ \A j \in Successes : ScoreOf(i) >= ScoreOf(j)

\* C5: when none of the MAX_RETRIES attempts succeeded, generate_one_image
\* returns a failed record without filename or image bytes, and max() is
\* never called on an empty list.
EmptyBatchContract ==
    /\ (BatchEnded /\ Successes = {}) =>
          /\ outcome.kind = "return"
          /\ outcome.value.status = "failed"
          /\ DOMAIN outcome.value = {"status", "detail"}
          /\ ~selector_arg.called
    /\ selector_arg.called => selector_arg.arg # <<>>

\* C6: when asyncio.gather returned and the only successful attempt has no
\* evaluation, generate_one_image returns a success record with that
\* attempt's bytes.
UnscoredSurvivorSelected ==
    \A i \in Attempts :
        (/\ GatherReturned
         /\ Successes = {i}
         /\ tasks[i].out.value.evaluation = None) =>
            /\ outcome.kind = "return"
            /\ ReturnedSuccessOf(i)

\* C7: however the attempts end, a call of generate_one_image that ended
\* returned a record whose status is success or failed; it did not raise.
NoExceptionCrosses ==
    Finished =>
        /\ pc = "returned"
        /\ outcome.kind = "return"
        /\ outcome.value.status \in {"success", "failed"}

\* C8: whatever the judge call does, evaluate_media returns an EvalResult
\* or None; it does not raise.
EvaluatorNeverRaises ==
    em_pc # "idle" =>
        /\ em_out.kind = "return"
        /\ em_out.value \in EvalResult \cup {None}

\* C9: a call with an empty input_images returns a failed record, and no
\* generation request and no evaluation call is made.
MissingInputFailsFast ==
    (pc # "idle" /\ input_images = 0) =>
        /\ pc = "returned"
        /\ outcome = Return([status |-> "failed", detail |-> NoInputDetail])
        /\ gen_requests = 0
        /\ eval_calls = 0
        /\ \A i \in Attempts : tasks[i].at = "none"

\* the call with no input image returned
MissingInputFailsFastWitness ==
    /\ pc = "returned"
    /\ input_images = 0
    /\ outcome.value.status = "failed"

\* the fan-out of generate_one_image happened
FannedOut == pc # "idle" /\ input_images > 0

\* the attempts whose request produced an image
WithImage == {i \in Attempts : tasks[i].image_bytes # 0}

\* C13: a call of generate_one_image that fans out issues exactly
\* MAX_RETRIES = 3 generation requests, all of them before the result of any
\* is looked at; no request is issued after that, whatever the attempts
\* return, and evaluate_media is called exactly once for each attempt whose
\* request produced an image.
FanOutIssuesKRequests ==
    /\ gen_requests = (IF FannedOut THEN MAX_RETRIES ELSE 0)
    /\ FannedOut => \A i \in Attempts : tasks[i].at # "none"
    /\ eval_calls = Cardinality(WithImage)
    /\ \A i \in Attempts :
          tasks[i].at = "evaluate" => i \in WithImage

\* the call returned after one attempt failed and two were evaluated
FanOutIssuesKRequestsWitness ==
    /\ pc = "returned"
    /\ gen_requests = MAX_RETRIES
    /\ eval_calls = MAX_RETRIES - 1
    /\ \E i \in Attempts : tasks[i].out.value = None

\* the successful attempts whose score is the greatest
BestAttempts ==
    {i \in Successes : \A j \in Successes : ScoreOf(i) >= ScoreOf(j)}

\* C14: when several successful attempts share the greatest score, the bytes
\* that generate_one_image returns are those of the first of them in the
\* order of the attempts' results.
FirstOfTheBestSelected ==
    (pc = "returned" /\ Successes # {}) =>
        \E i \in BestAttempts :
            /\ \A j \in BestAttempts : i <= j
            /\ ReturnedSuccessOf(i)

\* attempts 2 and 3 share the greatest score, above that of attempt 1, and
\* the bytes of attempt 2 were returned
FirstOfTheBestSelectedWitness ==
    /\ GatherReturned
    /\ BestAttempts = {2, 3}
    /\ 1 \in Successes
    /\ ReturnedSuccessOf(2)

\* the score of an attempt, by the weights of the rubric
RubricScore(x) == IF x.evaluation = None THEN 0 ELSE WeightedSum(x.evaluation)

\* the attempts of the drawn list whose score is the greatest
TopOfList ==
    {k \in 1..Len(sel_results) :
        \A m \in 1..Len(sel_results) :
            RubricScore(sel_results[k]) >= RubricScore(sel_results[m])}

\* C15 as stated: for a fixed set of successful attempts with their
\* evaluations, the attempt generate_one_image selects is the same for every
\* order of the attempts in the result list.
SelectionOrderIndependent ==
    sel_pc = "selected" => sel_best.given = sel_best.reordered

\* C15 as amended: for a fixed set of successful attempts with their
\* evaluations, the score of the attempt generate_one_image selects is the
\* same for every order of the result list, and the selected attempt itself
\* is the same when one attempt alone has the greatest score; among attempts
\* that share the greatest score the first in the list is selected, which
\* depends on the order.
SelectedScoreOrderIndependent ==
    sel_pc = "selected" =>
        /\ RubricScore(sel_best.given) = RubricScore(sel_best.reordered)
        /\ sel_best.given.image_bytes \in TopOfList
        /\ sel_best.reordered.image_bytes \in TopOfList
        /\ Cardinality(TopOfList) = 1 => sel_best.given = sel_best.reordered

\* three attempts of which the last alone has the greatest score, selected
\* in the given order and in the reverse order
SelectedScoreOrderIndependentWitness ==
    /\ sel_pc = "selected"
    /\ Len(sel_results) = MAX_RETRIES
    /\ sel_order = <<3, 2, 1>>
    /\ TopOfList = {3}
    /\ sel_best.given = sel_results[3]
    /\ sel_best.reordered = sel_results[3]

\* the call of generate_images_from_storyline ended
StoryFinished == gs_pc \in {"returned", "raised"}

\* the logo (when logo_prompt_present) and the asset sheet were loaded
InputsLoaded ==
    /\ Len(loaded) = (IF gs_args.logo_prompt_present THEN 2 ELSE 1)
    /\ \A k \in 1..Len(loaded) : loaded[k].part

\* the returned list is one failed record with a detail message
OneFailedRecord ==
    /\ gs_out.kind = "return"
    /\ Len(gs_out.value) = 1
    /\ gs_out.value[1].json.status = "failed"
    /\ "detail" \in DOMAIN gs_out.value[1].json
    /\ gs_out.value[1].json.detail # <<>>

UnitsRequested ==
    IF gs_args.scene_numbers.given THEN Len(gs_args.scene_numbers.list)
    ELSE Len(gs_args.prompts)

\* the positions of scenes_to_generate that have a prompt
UnitsWithPrompt ==
    IF gs_args.scene_numbers.given /\ UnitsRequested > Len(gs_args.prompts)
      THEN Len(gs_args.prompts)
      ELSE UnitsRequested

\* the call returned the list of records after its gather
StoryReturnedRecords == gs_pc = "returned" /\ InputsLoaded

\* C11 as stated: once the logo and the asset sheet are loaded, the returned
\* list has exactly one record, success or failed, for each entry of
\* scene_numbers when it is given and for each prompt otherwise.
OneRecordPerUnitRequested ==
    StoryReturnedRecords =>
        /\ Len(gs_out.value) = UnitsRequested
        /\ \A k \in 1..Len(gs_out.value) :
              gs_out.value[k].json.status \in {"success", "failed"}

\* C11 as amended: once the logo and the asset sheet are loaded, the returned
\* list has exactly one record, success or failed, for each position of the
\* scenes to generate that has a prompt: min(len(scene_numbers),
\* len(prompts)) records when scene_numbers is given, len(prompts) otherwise;
\* the entries of scene_numbers beyond the prompts get no record.
OneRecordPerUnitWithPrompt ==
    StoryReturnedRecords =>
        /\ Len(gs_out.value) = UnitsWithPrompt
        /\ Len(gs_out.value) = Len(gs_tasks)
        /\ \A k \in 1..Len(gs_out.value) :
              gs_out.value[k].json.status \in {"success", "failed"}

\* two scene numbers with one prompt gave one record, and a batch with no
\* image gave a failed one
OneRecordPerUnitWithPromptWitness ==
    /\ StoryReturnedRecords
    /\ gs_args.scene_numbers.given
    /\ Len(gs_args.scene_numbers.list) = 2
    /\ Len(gs_args.prompts) = 1
    /\ Len(gs_out.value) = 1
    /\ gs_out.value[1].json.status = "failed"

\* the save_artifact calls that stored a generated image
GeneratedSaves ==
    SelectSeq(artifacts, LAMBDA a : "image_bytes" \in DOMAIN a.data)

\* the records of the returned list whose status is success
SuccessRecords ==
    SelectSeq(gs_out.value, LAMBDA r : r.json.status = "success")

\* the tasks whose generate_one_image returned a success record
WinningTasks ==
    {t \in 1..Len(gs_tasks) :
        /\ gs_tasks[t].at = "returned"
        /\ gs_tasks[t].out.value.status = "success"}

\* C12: an image artifact is saved only by generate_images_from_storyline
\* after its gather, exactly once for each record with status success, under
\* the record's filename and with the bytes of the attempt the scene's
\* generate_one_image selected; nothing is saved for a failed scene, and
\* nothing while the generate_one_image tasks run.
WinnersOnlyPersisted ==
    IF StoryReturnedRecords
      THEN /\ Len(GeneratedSaves) = Len(SuccessRecords)
           /\ \A k \in 1..Len(GeneratedSaves) :
                 GeneratedSaves[k].filename = SuccessRecords[k].json.filename
           /\ Len(GeneratedSaves) = Cardinality(WinningTasks)
           /\ \A t \in WinningTasks :
                 Cardinality({k \in 1..Len(GeneratedSaves) :
                     /\ GeneratedSaves[k].data.image_bytes
                          = gs_tasks[t].out.value.image_bytes
                     /\ GeneratedSaves[k].filename
                          = gs_tasks[t].out.value.filename}) = 1
      ELSE GeneratedSaves = <<>>

\* of two scenes one failed and one succeeded: one image was saved
WinnersOnlyPersistedWitness ==
    /\ StoryReturnedRecords
    /\ Len(gs_out.value) = 2
    /\ Len(SuccessRecords) = 1
    /\ Len(GeneratedSaves) = 1

\* C19: when scene_numbers is None or an empty list, an image generation is
\* started for every prompt: one task for each of the scenes
\* 0..len(prompts)-1.
AllScenesWithoutSceneNumbers ==
    (/\ gs_pc # "idle"
     /\ InputsLoaded
     /\ (~gs_args.scene_numbers.given \/ gs_args.scene_numbers.list = <<>>)) =>
        /\ Len(gs_tasks) = Len(gs_args.prompts)
        /\ \A k \in 1..Len(gs_tasks) : gs_tasks[k].scene_num = k - 1

\* the monitor has seen the operation done
SeenDone == operation # None /\ operation.done

\* the done operation has no generated video: no result, or a result whose
\* generated_videos is None or empty
NoGeneratedVideos ==
    \/ operation.result = None
    \/ operation.result.generated_videos = None
    \/ operation.result.generated_videos.items = <<>>

\* the monitor returned the success outcome
MonitorSucceeded ==
    /\ mon_out # None
    /\ mon_out.kind = "return"
    /\ mon_out.value.error = None
    /\ mon_out.value.video # None

\* C16: once the operation is done, _monitor_video_operation returns exactly
\* one of three outcomes: (None, the error message) whenever the operation
\* has an error, whatever its result; (None, 'No videos found in the
\* response.') when it has no error and no generated videos; otherwise (the
\* first generated video, None).  _generate_single_video saves a video
\* artifact only in the success outcome with non-empty video bytes.
ThreeOutcomesWhenDone ==
    /\ SeenDone =>
          mon_out =
            (IF ErrorTruthy(operation)
               THEN Return([video |-> None, error |-> ErrorMessage(operation)])
             ELSE IF NoGeneratedVideos
               THEN Return([video |-> None, error |-> NoVideosMessage])
             ELSE Return([video |-> operation.result.generated_videos.items[1],
                          error |-> None]))
    /\ vid_artifacts # <<>> =>
          /\ MonitorSucceeded
          /\ Len(vid_artifacts) = 1
          /\ vid_artifacts[1].data # 0
          /\ vid_artifacts[1].data = mon_out.value.video.video.video_bytes

\* C17: _monitor_video_operation returns only after a status check (or the
\* submission) showed the operation done; while the operation is pending it
\* is waiting to check again; every status check follows exactly one sleep
\* of POLL_INTERVAL = 15, the same for each check; and it goes on for as
\* many checks as the operation stays pending.
PollsUntilDone ==
    /\ (mon_out # None /\ mon_out.kind = "return") => SeenDone
    /\ (operation # None /\ ~operation.done /\ mon_out = None) =>
          vid_pc = "sleeping"
    /\ vid_pc = "sleeping" => mon_out = None /\ ~operation.done
    /\ Len(sleeps) = polls + (IF vid_pc = "sleeping" THEN 1 ELSE 0)
    /\ \A k \in 1..Len(sleeps) : sleeps[k] = POLL_INTERVAL

\* the operation stayed pending up to the bound of the model and the
\* monitor returned at the check that showed it done
PollsUntilDoneWitness ==
    /\ mon_out # None
    /\ mon_out.kind = "return"
    /\ SeenDone
    /\ polls = MaxPolls
    /\ Len(sleeps) = MaxPolls

\* C18: once the operation reports done, _monitor_video_operation returns,
\* with a video or with an error message; and when the operation is done at
\* the submission, it returns with no sleep and no status check.
MonitorEventuallyReturns ==
    /\ SeenDone ~> (/\ mon_out # None
                    /\ mon_out.kind = "return"
                    /\ (mon_out.value.video # None
                          \/ mon_out.value.error # None))
    /\ [](SeenDone /\ polls = 0 => sleeps = <<>>)

\* some attempt of generate_audio got a valid response and saved it
AudioGenerated == \E k \in 1..Len(au_log) : au_log[k].event = "generated"

\* what C20 says of every state of a call of generate_audio
AudioNamed ==
    /\ Len(au_requests) <= AUDIO_MAX_RETRIES
    /\ au_pc \in {"idle", "posted", "returned"}
    /\ AudioGenerated <=> au_artifacts # <<>>
    /\ Len(au_artifacts) <= 1
    /\ AudioGenerated => au_pc = "returned"
    /\ au_pc = "returned" =>
          /\ au_out.kind = "return"
          /\ au_out.value # None
          /\ DOMAIN au_out.value = {"name"}
          /\ au_out.value.name = (IF AudioGenerated
                                    THEN au_artifacts[1].filename
                                    ELSE STATIC_AUDIO_FALLBACK)

\* C20: generate_audio issues at most MAX_RETRIES = 3 requests to the audio
\* service and always ends by returning a dict with a name: the name of the
\* saved audio artifact if some attempt got a valid response and saved it,
\* the static fallback name otherwise (no project id, no credentials, every
\* attempt failed, a non-retryable status); it never raises and never
\* returns None.
GenerateAudioAlwaysNamed == []AudioNamed /\ <>(au_pc = "returned")

\* two attempts failed and the third was saved and named
GenerateAudioAlwaysNamedWitness ==
    /\ au_pc = "returned"
    /\ Len(au_requests) = AUDIO_MAX_RETRIES
    /\ au_log[1].event = "transient"
    /\ au_log[2].event = "error"
    /\ au_artifacts # <<>>
    /\ au_out.value.name = au_artifacts[1].filename

\* the name under which ensure_image_artifact keeps the logo
LogoArtifactName == LastSegment(LOGO_GCS_URI)

\* position t (from 1) of the prompts is the logo scene
IsLogoPosition(t) ==
    gs_args.logo_prompt_present /\ t = Len(gs_args.prompts)

\* C24: in generate_images_from_storyline the prompt at position i is
\* generated with the logo image as its only reference input exactly when
\* logo_prompt_present is true and i is the last position of prompts, and
\* with the asset sheet as its only reference input otherwise; its output
\* filename is '<n>_.png' where n is the i-th requested scene number.  With
\* logo_prompt_present false no scene uses the logo and the logo is never
\* loaded.
LogoOnlyForLastPrompt ==
    gs_pc # "idle" =>
        /\ \A t \in 1..Len(gs_tasks) :
              /\ gs_tasks[t].input_images =
                    (IF IsLogoPosition(t) THEN <<"logo_image">>
                     ELSE <<"asset_sheet_image">>)
              /\ gs_tasks[t].scene_num = scenes_to_generate(gs_args)[t]
              /\ t \in WinningTasks =>
                    gs_tasks[t].out.value.filename =
                        IntToStr(scenes_to_generate(gs_args)[t])
                          \o <<"_", ".", "p", "n", "g">>
        /\ ~gs_args.logo_prompt_present =>
              /\ \A t \in 1..Len(gs_tasks) :
                    gs_tasks[t].input_images # <<"logo_image">>
              /\ \A k \in 1..Len(loaded) : loaded[k].name # LogoArtifactName
              /\ \A k \in 1..Len(artifacts) :
                    artifacts[k].filename # LogoArtifactName

\* a call with two prompts and the logo returned: the first scene was
\* generated from the asset sheet and the last from the logo, both with
\* success
LogoOnlyForLastPromptWitness ==
    /\ gs_pc = "returned"
    /\ gs_args.logo_prompt_present
    /\ Len(gs_tasks) = 2
    /\ WinningTasks = {1, 2}
    /\ gs_tasks[1].input_images = <<"asset_sheet_image">>
    /\ gs_tasks[2].input_images = <<"logo_image">>

\* the response has status 200 and a valid payload
ValidAudio(resp) ==
    resp.kind = "response" /\ resp.status = 200 /\ resp.payload = "valid"

\* the response has a status other than 200, 429, 500 or 503
OtherStatus(resp) ==
    resp.kind = "response" /\ resp.status \notin {200} \cup TransientStatuses

\* the response has status 429, 500 or 503
TransientStatus(resp) ==
    resp.kind = "response" /\ resp.status \in TransientStatuses

\* the step made no further request and ended the call
AudioLoopEnds == au_requests' = au_requests /\ au_pc' = "returned"

\* C25 as stated: in generate_audio's retry loop, a response with status 200
\* and a valid payload ends the loop with no further request; a response
\* with a status other than 200, 429, 500 or 503 ends the loop immediately
\* with no further request and yields the static fallback; only a
\* 429/500/503 status or a raised error leads to another attempt, and only
\* while fewer than 3 attempts have been made.
AudioLoopTransitions ==
    [][\A resp \in AudioResponses :
          AudioResponds(resp) =>
              /\ ValidAudio(resp) => AudioLoopEnds
              /\ OtherStatus(resp) =>
                    AudioLoopEnds /\ au_out' = audio_fallback
              /\ au_requests' # au_requests =>
                    /\ TransientStatus(resp) \/ audio_attempt_raises(resp)
                    /\ Len(au_requests) < AUDIO_MAX_RETRIES]_vars

\* C25, amended: a response with status 200 and a valid payload whose
\* artifact is saved ends the loop with no further request; a response with
\* a status other than 200, 429, 500 or 503 whose body is read ends the loop
\* immediately with no further request and yields the static fallback; a
\* 429/500/503 status or an error raised anywhere in the attempt (by the
\* post, by an invalid payload, by save_artifact or by reading the body)
\* leads to another attempt exactly while fewer than 3 attempts have been
\* made, and nothing else does.
AudioLoopTransitionsHandled ==
    [][\A resp \in AudioResponses :
          AudioResponds(resp) =>
              /\ ValidAudio(resp) /\ resp.save = "saved" => AudioLoopEnds
              /\ OtherStatus(resp) /\ resp.text = "read" =>
                    AudioLoopEnds /\ au_out' = audio_fallback
              /\ au_requests' # au_requests <=>
                    /\ TransientStatus(resp) \/ audio_attempt_raises(resp)
                    /\ Len(au_requests) < AUDIO_MAX_RETRIES]_vars

\* a call whose first request got a transient status and whose second
\* attempt raised returned the audio generated by its third request
AudioLoopTransitionsHandledWitness ==
    /\ au_pc = "returned"
    /\ Len(au_requests) = AUDIO_MAX_RETRIES
    /\ au_log[1].event = "transient"
    /\ au_log[2].event = "error"
    /\ au_log[3].event = "generated"

\* C29: in generate_audio a backoff wait (base 2^attempt, i.e. 1, 2, 4 for
\* attempts 0, 1, 2) occurs only when another attempt follows it: after the
\* third and final attempt fails, whether by a transient HTTP status or by a
\* raised error, the function returns the fallback without waiting.
BackoffOnlyBeforeAnAttempt ==
    \A k \in 1..Len(au_sleeps) :
        /\ au_sleeps[k].base = Pow2(au_sleeps[k].attempt)
        /\ \E r \in 1..Len(au_requests) :
              au_requests[r].attempt = au_sleeps[k].attempt + 1

\* the durations the video model supports
VeoDurations == {4, 6, 8}

\* |a - b|
Distance(a, b) == IF a >= b THEN a - b ELSE b - a

\* C26: _round_to_nearest_veo_duration maps every integer duration to a
\* supported duration in {4, 6, 8} at minimum absolute distance from the
\* input (a tie going to the larger value): 4 for inputs up to 4, 6 for 5
\* and 6, 8 for 7 and above.
RoundsToNearestSupported ==
    dur_pc = "returned" =>
        /\ dur_out \in VeoDurations
        /\ \A d \in VeoDurations :
              \/ Distance(dur_out, dur_in) < Distance(d, dur_in)
              \/ Distance(dur_out, dur_in) = Distance(d, dur_in)
                   /\ dur_out >= d
        /\ dur_in <= 4 => dur_out = 4
        /\ dur_in \in {5, 6} => dur_out = 6
        /\ dur_in >= 7 => dur_out = 8

\* the function was called with 5, as far from 4 as from 6, and returned 6
RoundsToNearestSupportedWitness ==
    dur_pc = "returned" /\ dur_in = 5 /\ dur_out = 6

\* generate_video ended, by a return or by an exception
VideoBatchEnded == gv_pc \in {"returned", "raised"}

\* the sources the loop of _create_video_tasks reached
ProcessedSources ==
    SubSeq(gv_sources, 1, Processed(gv_sources, gv_args.video_queries))

\* the Vertex AI client was there, every load gave the image or failed as
\* _process_video_source expects (no bytes, FileNotFoundError,
\* GoogleAPICallError), and every task that ended ended in a success, an
\* operation error or an empty result
ClaimedOutcomesOnly ==
    /\ gv_client
    /\ Len(gv_loads) = Len(ProcessedSources)
    /\ \A i \in 1..Len(gv_loads) :
          gv_loads[i] \in {"bytes", "none", "FileNotFoundError",
                           "GoogleAPICallError"}
    /\ \A t \in 1..Len(gv_tasks) :
          gv_tasks[t].cause \in {"running", "success", "operation error",
                                 "empty result"}

\* the name of the video generated from a source
VideoNameOf(source_path) == image_identifier_of(source_path) \o <<".mp4">>

\* how many items of the list satisfy the test
CountOf(list, Test(_)) == Len(SelectSeq(list, Test))

\* C27: generate_video accounts for every processed image source exactly
\* once: for any mix of image-load failures and video-generation outcomes
\* (success, operation error, empty result), each of the first min(number of
\* image sources, number of video queries) sources appears in exactly one of
\* the returned lists videos and failed_videos, and status is success if and
\* only if videos is non-empty.
EverySourceAccountedOnce ==
    VideoBatchEnded /\ ClaimedOutcomesOnly =>
        /\ gv_pc = "returned"
        /\ Len(gv_out.value.videos) + Len(gv_out.value.failed_videos)
             = Len(ProcessedSources)
        /\ \A i \in 1..Len(ProcessedSources) :
              LET s == ProcessedSources[i] IN
              CountOf(gv_out.value.videos, LAMBDA v : v.name = VideoNameOf(s))
                + CountOf(gv_out.value.failed_videos,
                          LAMBDA f : f.source = s)
                = CountOf(ProcessedSources, LAMBDA x : x = s)
        /\ gv_out.value.status = "success" <=> gv_out.value.videos # <<>>

\* the competitions whose `adk run` subprocess is active
ActiveRuns == {k \in 1..Len(er_runs) : er_runs[k].at = "subprocess"}

\* no call of run_competition is left to make or to end
AllRunsEnded ==
    /\ er_pc # "idle"
    /\ \A k \in 1..Len(er_runs) : er_runs[k].at \in {"returned", "raised"}

\* at most N runs are active, and no competition was run twice
RunsWithinJobs ==
    /\ er_pc # "idle" => Cardinality(ActiveRuns) <= er_jobs
    /\ \A k \in 1..Len(er_runs) :
          er_runs[k].starts <= 1 /\ er_runs[k].launches <= 1

\* every competition was run once
EveryCompetitionRunOnce ==
    /\ AllRunsEnded
    /\ \A k \in 1..Len(er_runs) :
          /\ er_runs[k].starts = 1
          /\ er_runs[k].at = "returned" => er_runs[k].launches = 1

WithSubmission ==
    {k \in 1..Len(er_runs) :
        \E i \in er_runs[k].contents : "input" \notin
            {SubmissionPaths[i][j] : j \in 1..Len(SubmissionPaths[i])}}

AudioAndVoiceoverReturned ==
    /\ av_pc = "returned"
    /\ AudioRequested(av_mode) \/ VoiceoverRequested(av_mode)

\* the failures list has an entry of the kind
HasFailure(what) ==
    \E k \in 1..Len(av_out.value.failures) :
        av_out.value.failures[k].what = what

\* audio was requested and none was generated: the static fallback is used
AudioFellBack ==
    /\ AudioRequested(av_mode)
    /\ au_artifacts = <<>>
    /\ av_out.value.audio_name.name = STATIC_AUDIO_FALLBACK

\* a voiceover was requested and none was generated
VoiceoverFailed ==
    /\ VoiceoverRequested(av_mode)
    /\ ~av_out.value.voiceover_name.given

\* C21: the failures list returned by generate_audio_and_voiceover contains
\* an entry for every requested generation that failed: whenever audio was
\* requested and no audio could be generated (so the static fallback is
\* used), the list has an 'audio' entry, and whenever a requested voiceover
\* could not be generated, it has a 'voiceover' entry.
EveryFailureListed ==
    AudioAndVoiceoverReturned =>
        /\ AudioFellBack => HasFailure("audio")
        /\ VoiceoverFailed => HasFailure("voiceover")

\* generate_storyline ended after its asset sheet attempts
SheetBatchEnded ==
    sh_pc \in {"returned", "raised"} /\ sh_tasks # <<>>

\* no attempt returned an image
EverySheetAttemptFailed ==
    \A i \in 1..Len(sh_tasks) :
        sh_tasks[i].out.kind = "raise" \/ sh_tasks[i].out.value = None

\* C23: when every asset-sheet generation attempt fails (no attempt returns
\* an image), generate_storyline returns a record with status failed and the
\* detail 'Failed to generate asset sheet image.'; it neither raises nor
\* saves an asset_sheet.png artifact nor returns status success.
SheetFailureReported ==
    SheetBatchEnded /\ EverySheetAttemptFailed =>
        /\ sh_pc = "returned"
        /\ sh_out.value.status = "failed"
        /\ sh_out.value.detail = <<"Failed to generate asset sheet image.">>
        /\ \A k \in 1..Len(sh_artifacts) :
              sh_artifacts[k].filename # ASSET_SHEET_FILENAME

\* C30: artifact names agree across the pipeline stages: for every scene
\* number n whose image generation succeeded, the name under which the image
\* stage saves the image ('<n>_.png') is exactly the name the video stage
\* loads for scene n, the video stage saves its result as '<n>_.mp4', and
\* the leading number that the combine stage parses from that name to pick
\* the scene's duration equals n.
NamesAgreeAcrossStages ==
    /\ nm_pc \in {"image", "video", "clip"} =>
          nm_image = IntToStr(nm_scene) \o <<"_", ".", "p", "n", "g">>
    /\ nm_pc \in {"video", "clip"} =>
          /\ nm_source = nm_image
          /\ nm_video = IntToStr(nm_scene) \o <<"_", ".mp4">>
    /\ nm_pc = "clip" =>
          nm_clip.isdigit /\ nm_clip.clip_index = nm_scene

\* scene 10, whose number has two digits, went through the three stages
NamesAgreeAcrossStagesWitness ==
    /\ nm_pc = "clip"
    /\ nm_scene = 10
    /\ nm_video = <<"1", "0", "_", ".mp4">>
    /\ nm_clip.isdigit /\ nm_clip.clip_index = 10

====
